---- MODULE Spec2Model ----
(***************************************************************************)
(* Chunk lifecycle and meshing pipeline of the voxel game:                 *)
(*   Chunk (voxel grid, meshing), TerrainGenerator, World (chunk           *)
(*   streaming, block access), the render statistics of Engine and the     *)
(*   frame loop of VoxelGame.                                              *)
(*                                                                         *)
(* JavaScript objects are records, object identity is an id               *)
(* <<x, y, z, n>> kept in `heap`, a Map is a function whose DOMAIN is its  *)
(* key set, a Set is a duplicate-free sequence in insertion order, and     *)
(* the promise job queue is the FIFO sequence `microtasks`.                *)
(***************************************************************************)
EXTENDS Integers, Sequences, FiniteSets, TLC

\* ------------------------------------------------------------------------
\* Configuration values (small instances of config.*) and model bounds
\* ------------------------------------------------------------------------
ChunkSize == 2
WorldHeight == 2
RenderDistance == 1
MaxMoves == 1
MaxInstances == 2
MaxApiCalls == 3
MaxChunkCalls == 3
MaxEdits == 2
MaxRenderCalls == 3
MaxGridCells == 8
PoolInitialSize == 2
MaxPoolCalls == 6
TimeStep == 100

\* ------------------------------------------------------------------------
\* Program constants
\* ------------------------------------------------------------------------
maxChunksPerFrame == 2
chunkUpdateInterval == 100
initialRadius == 2
stoneLevel == 5
ByteRange == 256
IndexRange == 65536

VARIABLES
    heap,               \* id -> Chunk object
    seed,               \* TerrainGenerator.seed
    chunks,             \* World.chunks            (Map key -> chunk)
    activeChunks,       \* World.activeChunks      (Set, insertion order)
    chunkLoadQueue,     \* World.chunkLoadQueue    (array of coordinates)
    chunkUnloadQueue,   \* World.chunkUnloadQueue  (array of chunks)
    renderDistance,     \* World.renderDistance
    elapsed,            \* performance.now() - World.lastChunkUpdate, saturated
    chunksLoaded,       \* local of the last processChunkQueues
    chunksUnloaded,     \* local of the last processChunkQueues
    microtasks,         \* pending promise jobs, FIFO
    loadResults,        \* chunks that loadChunk calls resolved to, per live coordinate
    playerPosition,     \* Player.position (integer world coordinates)
    moves,              \* number of times the observer changed position
    pc,                 \* position of the driver: "new", "idle", "render", "api", "unit", ..
    calls,              \* number of direct calls made by the client so far
    stats,              \* Engine.stats
    glBuffers,          \* buffers of the graphics context: created and not deleted
    faulty,             \* coordinates for which terrain generation throws
    engine,             \* Engine.shaders / Engine.textures and what it set on the graphics context
    game,               \* VoxelGame.config and VoxelGame.performance
    objectPool          \* one ObjectPool: pool, active, and the objects its factory made

vars == <<heap, seed, chunks, activeChunks, chunkLoadQueue, chunkUnloadQueue,
          renderDistance, elapsed, chunksLoaded, chunksUnloaded, microtasks,
          loadResults, playerPosition, moves, pc, calls, stats, glBuffers, faulty, engine, game, objectPool>>

Range(s) == {s[i] : i \in 1..Len(s)}

\* body(v) for v the value of e: e is computed once, before body
Let(e, body(_)) == CHOOSE r \in {body(v) : v \in {e}} : TRUE

\* a loop: step(acc, k) for k = lo, lo + 1, .., hi in turn, starting from acc
RECURSIVE For(_, _, _, _)
For(step(_, _), acc, lo, hi) ==
    IF lo > hi THEN acc
    ELSE IF lo = hi THEN step(acc, lo)
    ELSE Let((lo + hi) \div 2,
             LAMBDA mid : Let(For(step, acc, lo, mid),
                              LAMBDA left : For(step, left, mid + 1, hi)))

\* ------------------------------------------------------------------------
\* JavaScript values passed as blockType / returned by getBlock
\* ------------------------------------------------------------------------
Null == [kind |-> "null", type |-> 0]
Block(t) == [kind |-> "object", type |-> t]         \* { type: t, solid: true }, t a number
StoneBlock == [kind |-> "string", type |-> 0]       \* { type: 'stone', solid: true }

Truthy(v) == v.kind # "null"
\* blockType.type || 1 : a number is truthy unless 0, a non-empty string is truthy
TypeOr1(v) == IF v.kind = "string" THEN v
              ELSE IF v.type # 0 THEN v ELSE Block(1)
\* store into a Uint8Array cell: ToNumber, then modulo 2^8; a non-numeric string is NaN -> 0
ToUint8(v) == IF v.kind = "string" THEN 0 ELSE v.type % ByteRange

\* ------------------------------------------------------------------------
\* Chunk
\* ------------------------------------------------------------------------
NoMesh == [present |-> FALSE, faces |-> <<>>, vertexCount |-> 0, indexCount |-> 0,
           vertexBuffer |-> 0, indexBuffer |-> 0]

\* constructor(x, y, z, size)
Chunk(x, y, z, size) ==
    [position |-> <<x, y, z>>, size |-> size,
     blocks |-> [i \in 1..(size * size * size) |-> 0],
     mesh |-> NoMesh, needsRebuild |-> TRUE,
     vertexBuffer |-> 0, indexBuffer |-> 0,
     isEmpty |-> TRUE, isDirty |-> FALSE]

\* C8 mutant: the upper bound of z is not tested
OutOfRangeNoZ(c, x, y, z) ==
    x < 0 \/ x >= c.size \/ y < 0 \/ y >= c.size \/ z < 0

OutOfRange(c, x, y, z) ==
    x < 0 \/ x >= c.size \/ y < 0 \/ y >= c.size \/ z < 0 \/ z >= c.size

\* C7 mutant: z is scaled by size instead of size * size
BlockIndexFlat(c, x, y, z) == x + y * c.size + z * c.size + 1

\* index into blocks; the model's sequences start at 1
BlockIndex(c, x, y, z) == x + y * c.size + z * c.size * c.size + 1

\* typed-array element access: an index outside the array reads undefined
\* (and undefined > 0 is false), and a store to it is ignored
ReadByte(blocks, i) == IF i \in DOMAIN blocks THEN blocks[i] ELSE 0
WriteByte(blocks, i, v) == IF i \in DOMAIN blocks THEN [blocks EXCEPT ![i] = v] ELSE blocks

getBlock(c, x, y, z) ==
    IF OutOfRange(c, x, y, z) THEN Null
    ELSE LET blockType == ReadByte(c.blocks, BlockIndex(c, x, y, z))
         IN IF blockType > 0 THEN Block(blockType) ELSE Null

\* C32 mutant: the empty flag is left as it was
setBlockKeepsEmpty(c, x, y, z, blockType) ==
    IF OutOfRange(c, x, y, z) THEN c
    ELSE [c EXCEPT
            !.blocks = WriteByte(c.blocks, BlockIndex(c, x, y, z),
                                 IF Truthy(blockType) THEN ToUint8(TypeOr1(blockType)) ELSE 0),
            !.needsRebuild = TRUE,
            !.isDirty = TRUE]

setBlock(c, x, y, z, blockType) ==
    IF OutOfRange(c, x, y, z) THEN c
    ELSE [c EXCEPT
            !.blocks = WriteByte(c.blocks, BlockIndex(c, x, y, z),
                                 IF Truthy(blockType) THEN ToUint8(TypeOr1(blockType)) ELSE 0),
            !.needsRebuild = TRUE,
            !.isDirty = TRUE,
            !.isEmpty = IF Truthy(blockType) THEN FALSE ELSE @]

\* the six face kinds in the order buildMesh tests them, with the neighbour offset
FaceNames == <<"top", "bottom", "front", "back", "right", "left">>
\* C9 mutant: the top face tests the cell below
FaceOffsetTopDown(f) ==
    CASE f = "top"    -> <<0, -1, 0>>
      [] f = "bottom" -> <<0, -1, 0>>
      [] f = "front"  -> <<0, 0, 1>>
      [] f = "back"   -> <<0, 0, -1>>
      [] f = "right"  -> <<1, 0, 0>>
      [] f = "left"   -> <<-1, 0, 0>>

FaceOffset(f) ==
    CASE f = "top"    -> <<0, 1, 0>>
      [] f = "bottom" -> <<0, -1, 0>>
      [] f = "front"  -> <<0, 0, 1>>
      [] f = "back"   -> <<0, 0, -1>>
      [] f = "right"  -> <<1, 0, 0>>
      [] f = "left"   -> <<-1, 0, 0>>

\* addFace: the face is recorded with the vertexOffset it was given, which
\* determines its six entries of the index array
addFace(m, vertexOffset, x, y, z, face) ==
    [m EXCEPT !.faces = Append(@, <<x, y, z, face, vertexOffset>>),
              !.indexCount = @ + 6]

\* C31 mutant: addFace numbers the vertices of a face from the count of
\* faces emitted so far instead of the count of vertices
faceIndicesByFace(vertexOffset) ==
    <<vertexOffset \div 4, vertexOffset \div 4 + 1, vertexOffset \div 4 + 2,
      vertexOffset \div 4, vertexOffset \div 4 + 2, vertexOffset \div 4 + 3>>

\* the six indices addFace pushes for a face
faceIndices(vertexOffset) ==
    <<vertexOffset, vertexOffset + 1, vertexOffset + 2,
      vertexOffset, vertexOffset + 2, vertexOffset + 3>>

\* new Uint16Array(indices): every element is stored modulo 2^16
ToUint16(v) == v % IndexRange

\* mesh.indices: the entries of the k-th face (k from 1), as stored
storedIndices(m, k) ==
    [i \in 1..6 |-> ToUint16(faceIndices(m.faces[k][5])[i])]

\* one iteration of the loop nest of buildMesh: k counts (cell, face) pairs,
\* x outermost, then y, then z, then the six faces
MeshStep(c, k, m) ==
    LET cell == k \div 6
        x == cell \div (c.size * c.size)
        y == (cell \div c.size) % c.size
        z == cell % c.size
        face == FaceNames[(k % 6) + 1]
        d == FaceOffset(face)
    IN IF getBlock(c, x, y, z) = Null THEN m
       ELSE IF getBlock(c, x + d[1], y + d[2], z + d[3]) = Null
            THEN [addFace(m, m.vertexCount, x, y, z, face) EXCEPT !.vertexCount = @ + 4]
            ELSE m

\* C28 mutant: buildMesh that leaves needsRebuild set
buildMeshKeepsFlag(c) ==
    IF ~c.needsRebuild THEN c
    ELSE [c EXCEPT !.mesh = For(LAMBDA m, k : MeshStep(c, k, m),
                                [NoMesh EXCEPT !.present = TRUE],
                                0, 6 * c.size * c.size * c.size - 1)]

buildMesh(c) ==
    IF ~c.needsRebuild THEN c
    ELSE [c EXCEPT !.mesh = For(LAMBDA m, k : MeshStep(c, k, m),
                                [NoMesh EXCEPT !.present = TRUE],
                                0, 6 * c.size * c.size * c.size - 1),
                   !.needsRebuild = FALSE]

\* destroy(): blocks = null (the empty sequence), mesh = null, buffers dropped
destroy(c) ==
    [c EXCEPT !.blocks = <<>>, !.mesh = NoMesh,
              !.vertexBuffer = 0, !.indexBuffer = 0]

\* gl.createBuffer(): a buffer object the context did not hold before
FreshBuffer(g) == CHOOSE n \in 1..(Cardinality(g) + 1) : n \notin g

\* createBuffers(gl): <<the chunk, the buffers of the context>> after the call;
\* buffer handles are positive numbers, 0 is null
createBuffers(c, g) ==
    IF ~c.mesh.present \/ c.mesh.vertexCount = 0 THEN <<c, g>>
    ELSE LET vb == IF c.vertexBuffer = 0 THEN FreshBuffer(g) ELSE c.vertexBuffer
             g1 == g \cup {vb}
             ib == IF c.indexBuffer = 0 THEN FreshBuffer(g1) ELSE c.indexBuffer
         IN <<[c EXCEPT !.vertexBuffer = vb, !.indexBuffer = ib,
                        !.mesh.vertexBuffer = vb, !.mesh.indexBuffer = ib],
              g1 \cup {ib}>>

\* ------------------------------------------------------------------------
\* TerrainGenerator
\* ------------------------------------------------------------------------
\* noise2D: the fractional part of sin(..) * 43758.5453 is replaced by an
\* integer hash over the thirty height steps the caller distinguishes
noise2D(x, y) == (x * 13 + y * 79 + x * y * 7) % 30

\* C12 mutant: the height also depends on how many calls were made before
getHeightAtDrift(s, x, z) == 5 + noise2D(x + s + calls, z + s)

\* floor(height * 30 + 5) for a normalised height in [0, 1): 5 .. 34
getHeightAt(s, x, z) == 5 + noise2D(x + s, z + s)

\* one iteration of the loop nest of generateChunk: k counts cells,
\* x outermost, then z, then y
TerrainStep(s, c, k) ==
    LET x == k \div (c.size * c.size)
        z == (k \div c.size) % c.size
        y == k % c.size
        height == getHeightAt(s, c.position[1] * c.size + x,
                                 c.position[3] * c.size + z)
        worldYPos == c.position[2] * c.size + y
        blockType == IF worldYPos < stoneLevel THEN 3
                     ELSE IF worldYPos < height - 3 THEN 1
                     ELSE IF worldYPos < height - 1 THEN 2
                     ELSE 4
    IN IF worldYPos < height
       THEN setBlock(c, x, y, z, Block(blockType))
       ELSE c

\* generateChunk: the loop nest, then chunk.buildMesh()
generateChunk(s, c) ==
    Let(For(LAMBDA acc, k : TerrainStep(s, acc, k), c, 0, c.size * c.size * c.size - 1),
        LAMBDA filled : buildMesh(filled))

\* ------------------------------------------------------------------------
\* World: the operations act on a record w of the World's fields
\* ------------------------------------------------------------------------
World ==
    [heap |-> heap, chunks |-> chunks, activeChunks |-> activeChunks,
     chunkLoadQueue |-> chunkLoadQueue, chunkUnloadQueue |-> chunkUnloadQueue,
     microtasks |-> microtasks, loadResults |-> loadResults,
     chunksLoaded |-> chunksLoaded, chunksUnloaded |-> chunksUnloaded]

KeyOf(id) == <<id[1], id[2], id[3]>>

\* identity of a newly constructed Chunk: the first free instance number
NewId(h, key) ==
    LET n == CHOOSE n \in 0..MaxInstances :
                /\ \A m \in 0..(n - 1) : <<key[1], key[2], key[3], m>> \in DOMAIN h
                /\ (n < MaxInstances => <<key[1], key[2], key[3], n>> \notin DOMAIN h)
    IN <<key[1], key[2], key[3], n>>

LayerCount == (WorldHeight + ChunkSize - 1) \div ChunkSize   \* Math.ceil(worldHeight / chunkSize)

SetAdd(s, e) == IF e \in Range(s) THEN s ELSE Append(s, e)
SetDelete(s, e) == SelectSeq(s, LAMBDA v : v # e)
MapSet(m, k, v) == (k :> v) @@ m
MapDelete(m, k) == [j \in DOMAIN m \ {k} |-> m[j]]

\* the call of generateChunk ("generate") or of buildMesh ("mesh") inside
\* loadChunk throws for this coordinate
Throws(key, stage) == <<key, stage>> \in faulty

\* loadChunk up to its await: new Chunk, generateChunk; an exception inside the
\* async generateChunk leaves the new chunk as constructed and rejects the
\* promise loadChunk awaits
loadChunkCreate(w, s, id) ==
    IF Throws(KeyOf(id), "generate")
    THEN [w EXCEPT !.heap = MapSet(w.heap, id, Chunk(id[1], id[2], id[3], ChunkSize))]
    ELSE [w EXCEPT !.heap = MapSet(w.heap, id,
                                   generateChunk(s, Chunk(id[1], id[2], id[3], ChunkSize)))]

\* loadChunk after its await: buildMesh, chunks.set, return chunk
loadChunkStore(w, id) ==
    [w EXCEPT !.heap = MapSet(w.heap, id, buildMesh(w.heap[id])),
              !.chunks = MapSet(w.chunks, KeyOf(id), id),
              !.loadResults = w.loadResults \cup {id}]

\* C6 mutant: the chunk is not taken out of the active set
unloadChunkKeepActive(w, key) ==
    IF key \in DOMAIN w.chunks
    THEN [w EXCEPT !.heap = MapSet(w.heap, w.chunks[key], destroy(w.heap[w.chunks[key]])),
                   !.chunks = MapDelete(w.chunks, key),
                   !.loadResults = {r \in w.loadResults : KeyOf(r) # key}]
    ELSE w

unloadChunk(w, key) ==
    IF key \in DOMAIN w.chunks
    THEN LET id == w.chunks[key]
         IN [w EXCEPT !.heap = MapSet(w.heap, id, destroy(w.heap[id])),
                      !.chunks = MapDelete(w.chunks, key),
                      !.activeChunks = SetDelete(w.activeChunks, id),
                      !.loadResults = {r \in w.loadResults : KeyOf(r) # key}]
    ELSE w

\* C26 mutant: queueChunkLoad without the alreadyQueued test
queueChunkLoadAlways(q, key) == Append(q, key)

queueChunkLoad(q, key) == IF key \in Range(q) THEN q ELSE Append(q, key)

queueChunkUnload(q, id) == IF id \in Range(q) THEN q ELSE Append(q, id)

\* the coordinates the selection pass visits, in visiting order:
\* x outermost, then z, then y
ScanOrder(R, centerX, centerZ) ==
    LET side == 2 * R + 1
    IN [k \in 1..(side * side * LayerCount) |->
          <<centerX - R + ((k - 1) \div (side * LayerCount)),
            (k - 1) % LayerCount,
            centerZ - R + (((k - 1) \div LayerCount) % side)>>]

ScanCount(R) == (2 * R + 1) * (2 * R + 1) * LayerCount

\* C2 mutant: the square around the observer instead of the disc
WithinSquare(key, R, centerX, centerZ) ==
    /\ key[1] - centerX \in (-R)..R
    /\ key[3] - centerZ \in (-R)..R

\* C24 mutant: the test distance < renderDist
StrictlyWithinRenderDist(key, R, centerX, centerZ) ==
    (key[1] - centerX) * (key[1] - centerX)
        + (key[3] - centerZ) * (key[3] - centerZ) < R * R

\* Math.sqrt(dx^2 + dz^2) <= renderDist, on integers
WithinRenderDist(key, R, centerX, centerZ) ==
    (key[1] - centerX) * (key[1] - centerX)
        + (key[3] - centerZ) * (key[3] - centerZ) <= R * R

\* C23 mutant: a coordinate in range is queued for load whether or not the
\* mapping has it
SelectionStepRequeues(r, key, R, centerX, centerZ) ==
    IF ~WithinRenderDist(key, R, centerX, centerZ) THEN r
    ELSE <<[r[1] EXCEPT !.chunkLoadQueue = queueChunkLoad(r[1].chunkLoadQueue, key)],
           IF key \in DOMAIN r[1].chunks THEN SetDelete(r[2], r[1].chunks[key]) ELSE r[2]>>

\* one iteration of the selection loop; r = <<w, chunksToCheck>>
SelectionStep(r, key, R, centerX, centerZ) ==
    IF ~WithinRenderDist(key, R, centerX, centerZ) THEN r
    ELSE IF key \notin DOMAIN r[1].chunks
         THEN <<[r[1] EXCEPT !.chunkLoadQueue = queueChunkLoad(r[1].chunkLoadQueue, key)], r[2]>>
         ELSE <<r[1], SetDelete(r[2], r[1].chunks[key])>>

\* chunksToCheck = new Set(activeChunks); the scan; the chunks left over are queued
updateChunksAroundPlayer(w, R, centerX, centerZ) ==
    Let(For(LAMBDA r, k : SelectionStep(r, ScanOrder(R, centerX, centerZ)[k],
                                        R, centerX, centerZ),
            <<w, w.activeChunks>>, 1, ScanCount(R)),
        LAMBDA r : [r[1] EXCEPT !.chunkUnloadQueue =
                       For(LAMBDA q, i : queueChunkUnload(q, r[2][i]),
                           r[1].chunkUnloadQueue, 1, Len(r[2]))])

\* a pending promise job: the rest of a loadChunk call after its await
\* ("loadChunk"; then = the caller attached a .then callback), or that callback ("then")
Job(kind, id, then) == [kind |-> kind, chunk |-> id, then |-> then]

\* loadChunk up to its await; its continuation is queued as a promise job
loadChunk(w, s, key, then) ==
    IF key \in DOMAIN w.chunks
    THEN IF then
         THEN [w EXCEPT !.loadResults = w.loadResults \cup {w.chunks[key]},
                        !.microtasks = Append(w.microtasks, Job("then", w.chunks[key], FALSE))]
         ELSE [w EXCEPT !.loadResults = w.loadResults \cup {w.chunks[key]}]
    ELSE Let(NewId(w.heap, key),
             LAMBDA id : [loadChunkCreate(w, s, id) EXCEPT
                            !.microtasks = Append(w.microtasks, Job("loadChunk", id, then))])

\* C5 mutant: the load loop without the per-call cap
RECURSIVE LoadLoopUncapped(_, _, _)
LoadLoopUncapped(w, s, n) ==
    IF Len(w.chunkLoadQueue) = 0
    THEN [w EXCEPT !.chunksLoaded = n]
    ELSE Let(loadChunk([w EXCEPT !.chunkLoadQueue = Tail(w.chunkLoadQueue)],
                       s, Head(w.chunkLoadQueue), TRUE),
             LAMBDA w1 : LoadLoopUncapped(w1, s, n + 1))

\* C20 mutant: an exception of generateChunk leaves the load loop, as it
\* would if loadChunk were not an async function
RECURSIVE LoadLoopAborting(_, _, _)
LoadLoopAborting(w, s, n) ==
    IF Len(w.chunkLoadQueue) = 0 \/ n >= maxChunksPerFrame
    THEN [w EXCEPT !.chunksLoaded = n]
    ELSE IF Throws(Head(w.chunkLoadQueue), "generate")
         THEN [w EXCEPT !.chunkLoadQueue = Tail(w.chunkLoadQueue), !.chunksLoaded = n]
         ELSE Let(loadChunk([w EXCEPT !.chunkLoadQueue = Tail(w.chunkLoadQueue)],
                            s, Head(w.chunkLoadQueue), TRUE),
                  LAMBDA w1 : LoadLoopAborting(w1, s, n + 1))

\* C27 mutant: the .then callback drops a chunk that is no longer within
\* the render distance of the observer
RunJobCancelling(w, job) ==
    CASE job.kind = "loadChunk" /\ job.then ->
           [loadChunkStore(w, job.chunk) EXCEPT
              !.microtasks = Append(w.microtasks, Job("then", job.chunk, FALSE))]
      [] job.kind = "loadChunk" /\ ~job.then -> loadChunkStore(w, job.chunk)
      [] job.kind = "then" ->
           IF WithinRenderDist(KeyOf(job.chunk), renderDistance,
                               playerPosition[1] \div ChunkSize,
                               playerPosition[3] \div ChunkSize)
           THEN [w EXCEPT !.activeChunks = SetAdd(w.activeChunks, job.chunk)]
           ELSE w
      [] job.kind = "rejected" -> w

\* the load loop of processChunkQueues: loadChunk(..).then(chunk => activeChunks.add(chunk))
RECURSIVE LoadLoop(_, _, _)
LoadLoop(w, s, n) ==
    IF Len(w.chunkLoadQueue) = 0 \/ n >= maxChunksPerFrame
    THEN [w EXCEPT !.chunksLoaded = n]
    ELSE Let(loadChunk([w EXCEPT !.chunkLoadQueue = Tail(w.chunkLoadQueue)],
                       s, Head(w.chunkLoadQueue), TRUE),
             LAMBDA w1 : LoadLoop(w1, s, n + 1))

\* the unload loop of processChunkQueues
RECURSIVE UnloadLoop(_, _)
UnloadLoop(w, n) ==
    IF Len(w.chunkUnloadQueue) = 0 \/ n >= maxChunksPerFrame
    THEN [w EXCEPT !.chunksUnloaded = n]
    ELSE Let(unloadChunk([w EXCEPT !.chunkUnloadQueue = Tail(w.chunkUnloadQueue)],
                         w.heap[Head(w.chunkUnloadQueue)].position),
             LAMBDA w1 : UnloadLoop(w1, n + 1))

processChunkQueues(w, s) == Let(LoadLoop(w, s, 0), LAMBDA w1 : UnloadLoop(w1, 0))

\* update() past the throttle test
update(w, s, R, position) ==
    Let(updateChunksAroundPlayer(w, R, position[1] \div ChunkSize, position[3] \div ChunkSize),
        LAMBDA w1 : processChunkQueues(w1, s))

\* await loadChunk(x, y, z): the call runs to its end; <<world, chunk returned>>
AwaitLoadChunk(w, s, key) ==
    IF key \in DOMAIN w.chunks
    THEN <<[w EXCEPT !.loadResults = w.loadResults \cup {w.chunks[key]}], w.chunks[key]>>
    ELSE Let(NewId(w.heap, key),
             LAMBDA id : Let(loadChunkCreate(w, s, id),
                             LAMBDA w1 : <<loadChunkStore(w1, id), id>>))

\* one iteration of generateInitialChunks: await loadChunk, activeChunks.add
InitialStep(w, s, key) ==
    Let(AwaitLoadChunk(w, s, key),
        LAMBDA r : [r[1] EXCEPT !.activeChunks = SetAdd(r[1].activeChunks, r[2])])

\* every coordinate of the square of side 2 * initialRadius + 1, each load awaited in turn
generateInitialChunks(w, s) ==
    For(LAMBDA acc, k : InitialStep(acc, s, ScanOrder(initialRadius, 0, 0)[k]),
        w, 1, ScanCount(initialRadius))

\* C14 mutant: the chunk coordinate is truncated toward zero instead of floored
WorldGetBlockTrunc(w, x, y, z) ==
    LET trunc(a) == IF a >= 0 THEN a \div ChunkSize ELSE -((-a) \div ChunkSize)
        key == <<trunc(x), trunc(y), trunc(z)>>
    IN IF key \in DOMAIN w.chunks
       THEN getBlock(w.heap[w.chunks[key]], x - key[1] * ChunkSize,
                     y - key[2] * ChunkSize, z - key[3] * ChunkSize)
       ELSE Null

\* World.getBlock
WorldGetBlock(w, x, y, z) ==
    LET chunkX == x \div ChunkSize
        chunkY == y \div ChunkSize
        chunkZ == z \div ChunkSize
        key == <<chunkX, chunkY, chunkZ>>
    IN IF key \in DOMAIN w.chunks
       THEN getBlock(w.heap[w.chunks[key]], x - chunkX * ChunkSize,
                     y - chunkY * ChunkSize, z - chunkZ * ChunkSize)
       ELSE Null

markChunkForRebuild(w, key) ==
    IF key \in DOMAIN w.chunks
    THEN [w EXCEPT !.heap = MapSet(w.heap, w.chunks[key],
                                   [w.heap[w.chunks[key]] EXCEPT !.needsRebuild = TRUE])]
    ELSE w

\* C11 mutant: the upper faces are tested against chunkSize instead of chunkSize - 1
NeighborTestsOffByOne ==
    << <<1, 0, -1>>, <<1, ChunkSize, 1>>, <<2, 0, -1>>, <<2, ChunkSize, 1>>,
       <<3, 0, -1>>, <<3, ChunkSize, 1>> >>

\* the six tests of markNeighborChunksForRebuild in source order:
\* <<axis, local value tested for, step to the neighbour>>
NeighborTests ==
    << <<1, 0, -1>>, <<1, ChunkSize - 1, 1>>, <<2, 0, -1>>, <<2, ChunkSize - 1, 1>>,
       <<3, 0, -1>>, <<3, ChunkSize - 1, 1>> >>

markNeighborChunksForRebuild(w, pos, local) ==
    For(LAMBDA acc, i :
            IF local[NeighborTests[i][1]] = NeighborTests[i][2]
            THEN markChunkForRebuild(acc, [pos EXCEPT ![NeighborTests[i][1]] =
                                                       @ + NeighborTests[i][3]])
            ELSE acc,
        w, 1, Len(NeighborTests))

\* C13 mutant: a position whose chunk is not loaded queues that chunk for load
WorldSetBlockQueues(w, x, y, z, blockType) ==
    LET chunkX == x \div ChunkSize
        chunkY == y \div ChunkSize
        chunkZ == z \div ChunkSize
        key == <<chunkX, chunkY, chunkZ>>
        local == <<x - chunkX * ChunkSize, y - chunkY * ChunkSize, z - chunkZ * ChunkSize>>
    IN IF key \in DOMAIN w.chunks
       THEN Let([w EXCEPT !.heap = MapSet(w.heap, w.chunks[key],
                            [setBlock(w.heap[w.chunks[key]], local[1], local[2], local[3],
                                      blockType)
                               EXCEPT !.needsRebuild = TRUE])],
                LAMBDA w1 : markNeighborChunksForRebuild(w1, w1.heap[w.chunks[key]].position,
                                                         local))
       ELSE [w EXCEPT !.chunkLoadQueue = queueChunkLoad(w.chunkLoadQueue, key)]

\* World.setBlock
WorldSetBlock(w, x, y, z, blockType) ==
    LET chunkX == x \div ChunkSize
        chunkY == y \div ChunkSize
        chunkZ == z \div ChunkSize
        key == <<chunkX, chunkY, chunkZ>>
        local == <<x - chunkX * ChunkSize, y - chunkY * ChunkSize, z - chunkZ * ChunkSize>>
    IN IF key \in DOMAIN w.chunks
       THEN Let([w EXCEPT !.heap = MapSet(w.heap, w.chunks[key],
                            [setBlock(w.heap[w.chunks[key]], local[1], local[2], local[3],
                                      blockType)
                               EXCEPT !.needsRebuild = TRUE])],
                LAMBDA w1 : markNeighborChunksForRebuild(w1, w1.heap[w.chunks[key]].position,
                                                         local))
       ELSE w

\* World.destroy
WorldDestroy(w) ==
    [w EXCEPT !.heap = [id \in DOMAIN w.heap |->
                          IF id \in {w.chunks[k] : k \in DOMAIN w.chunks}
                          THEN destroy(w.heap[id]) ELSE w.heap[id]],
              !.chunks = <<>>, !.activeChunks = <<>>,
              !.chunkLoadQueue = <<>>, !.chunkUnloadQueue = <<>>,
              !.loadResults = {}]

\* ------------------------------------------------------------------------
\* Engine: visibility and render statistics
\* ------------------------------------------------------------------------
NoStats == [drawCalls |-> 0, vertices |-> 0, triangles3 |-> 0, chunks |-> 0]

\* camera.position = player position plus the eye height 1.6, in tenths
CameraPosition10(p) == <<10 * p[1], 10 * p[2] + 16, 10 * p[3]>>

\* square of ten times getChunkDistance
ChunkDistanceSq(c, cam10) ==
    LET cx == (10 * c.position[1] + 5) * ChunkSize - cam10[1]
        cy == (10 * c.position[2] + 5) * ChunkSize - cam10[2]
        cz == (10 * c.position[3] + 5) * ChunkSize - cam10[3]
    IN cx * cx + cy * cy + cz * cz

\* distance < renderDistance * chunkSize * 1.5
isChunkInFrustum(c, cam10, R) ==
    ChunkDistanceSq(c, cam10) < (15 * R * ChunkSize) * (15 * R * ChunkSize)

\* C15 mutant: the comparator is reversed (farthest chunk first)
SortFarthestFirst(s, w, cam10) ==
    LET d(i) == ChunkDistanceSq(w.heap[s[i]], cam10)
        rank(i) == 1 + Cardinality({j \in 1..Len(s) : d(j) > d(i) \/ (d(j) = d(i) /\ j < i)})
    IN [p \in 1..Len(s) |-> s[CHOOSE i \in 1..Len(s) : rank(i) = p]]

\* Array.prototype.sort with the distance comparator; the sort is stable
SortByDistance(s, w, cam10) ==
    LET d(i) == ChunkDistanceSq(w.heap[s[i]], cam10)
        rank(i) == 1 + Cardinality({j \in 1..Len(s) : d(j) < d(i) \/ (d(j) = d(i) /\ j < i)})
    IN [p \in 1..Len(s) |-> s[CHOOSE i \in 1..Len(s) : rank(i) = p]]

\* activeChunks filtered by isChunkInFrustum, then sorted
getVisibleChunks(w, cam10, R) ==
    Let(SelectSeq(w.activeChunks, LAMBDA id : isChunkInFrustum(w.heap[id], cam10, R)),
        LAMBDA visible : SortByDistance(visible, w, cam10))

\* renderChunk: the statistics it accumulates (triangles3 is three times stats.triangles)
renderChunk(st, c) ==
    [drawCalls |-> st.drawCalls + 1,
     vertices |-> st.vertices + c.mesh.vertexCount,
     triangles3 |-> st.triangles3 + c.mesh.vertexCount,
     chunks |-> st.chunks + 1]

\* the draw call renderChunk issues: <<function, count>>
drawCall(c) ==
    IF c.mesh.indexBuffer # 0
    THEN <<"drawElements", c.mesh.indexCount>>
    ELSE <<"drawArrays", c.mesh.vertexCount>>

\* the size renderChunk multiplies chunk.position by for the model matrix
translationScale == 16

\* the translation renderChunk puts into the model matrix
modelTranslation(c) ==
    <<c.position[1] * translationScale, c.position[2] * translationScale,
      c.position[3] * translationScale>>

\* renderWorld: every visible chunk with a non-empty mesh is rendered
renderWorld(st, w, cam10, R) ==
    Let(getVisibleChunks(w, cam10, R),
        LAMBDA visibleChunks :
            For(LAMBDA acc, i :
                    IF w.heap[visibleChunks[i]].mesh.present
                          /\ w.heap[visibleChunks[i]].mesh.vertexCount > 0
                    THEN renderChunk(acc, w.heap[visibleChunks[i]])
                    ELSE acc,
                st, 1, Len(visibleChunks)))

\* ------------------------------------------------------------------------
\* Engine: shader program and textures.  block is shaders.block ("unset"
\* before createShaders, "null", or "program"); atlas and white are
\* textures.atlas and textures.white (0 = undefined); glTextures are the
\* textures created on the graphics context, bound the one bound to
\* TEXTURE_2D, program the program in use.
\* ------------------------------------------------------------------------
NewEngine ==
    [block |-> "unset", atlas |-> 0, white |-> 0,
     glTextures |-> {}, bound |-> 0, program |-> "none"]

\* createShaderProgram: null as soon as a compile or the link fails
createShaderProgram(vertexOk, fragmentOk, linkOk) ==
    IF ~vertexOk THEN "null"
    ELSE IF ~fragmentOk THEN "null"
    ELSE IF ~linkOk THEN "null"
    ELSE "program"

\* C21 mutant: createShaders that tolerates a null program
createShadersLenient(e, vertexOk, fragmentOk, linkOk) ==
    <<[e EXCEPT !.block = createShaderProgram(vertexOk, fragmentOk, linkOk)], TRUE>>

\* createShaders: <<engine, completed>>; shader.uniforms = .. on a null
\* shader throws a TypeError
createShaders(e, vertexOk, fragmentOk, linkOk) ==
    LET e1 == [e EXCEPT !.block = createShaderProgram(vertexOk, fragmentOk, linkOk)]
    IN <<e1, e1.block # "null">>

\* gl.createTexture()
FreshTexture(e) == Cardinality(e.glTextures) + 1

\* loadTexture: <<engine, texture the promise resolves to>>; onerror
\* resolves to textures.white as it is at that moment
loadTexture(e, loads) ==
    LET t == FreshTexture(e)
        e1 == [e EXCEPT !.glTextures = @ \cup {t}, !.bound = t]
    IN IF loads THEN <<e1, t>> ELSE <<e1, e1.white>>

createWhiteTexture(e) ==
    LET t == FreshTexture(e)
    IN <<[e EXCEPT !.glTextures = @ \cup {t}, !.bound = t], t>>

\* createTextures: atlas = await loadTexture(..), then white = createWhiteTexture()
createTextures(e, loads) ==
    LET r1 == loadTexture(e, loads)
        e1 == [r1[1] EXCEPT !.atlas = r1[2]]
        r2 == createWhiteTexture(e1)
    IN [r2[1] EXCEPT !.white = r2[2]]

\* Engine.init: <<engine, completed>>
EngineInitOf(e, vertexOk, fragmentOk, linkOk, loads) ==
    LET r == createShaders(e, vertexOk, fragmentOk, linkOk)
    IN IF r[2] THEN <<createTextures(r[1], loads), TRUE>> ELSE r

\* an Engine whose init completed with the atlas loaded
ReadyEngine == EngineInitOf(NewEngine, TRUE, TRUE, TRUE, TRUE)[1]

\* C22 mutant: renderWorld binds textures.atlas without the fallback
AtlasOnly(e) == e.atlas

\* the texture renderWorld binds: textures.atlas || textures.white
AtlasOrWhite(e) == IF e.atlas # 0 THEN e.atlas ELSE e.white

\* renderWorld reads shader.program of a null shader: TypeError
renderWorldThrows(e) == e.block # "program"

\* renderWorld: gl.useProgram(shader.program), gl.bindTexture(TEXTURE_2D, ..)
renderWorldBind(e) == [e EXCEPT !.program = e.block, !.bound = AtlasOrWhite(e)]

\* C19 mutant: drawing a chunk takes it out of the active set
renderChunkDeactivates(w, id) == [w EXCEPT !.activeChunks = SetDelete(w.activeChunks, id)]

\* renderChunk: what it assigns to the World and the chunk. It reads chunk.vao,
\* chunk.mesh and chunk.position and writes only Engine.stats, Engine.modelMatrix
\* and the bindings of the graphics context
renderChunkEffect(w, id) == w

\* renderWorld: the World after the call. getVisibleChunks fills and sorts an
\* array of its own; every visible chunk with a non-empty mesh goes to renderChunk
renderWorldEffect(w, cam10, R) ==
    Let(getVisibleChunks(w, cam10, R),
        LAMBDA visibleChunks :
            For(LAMBDA acc, i :
                    IF w.heap[visibleChunks[i]].mesh.present
                          /\ w.heap[visibleChunks[i]].mesh.vertexCount > 0
                    THEN renderChunkEffect(acc, visibleChunks[i])
                    ELSE acc,
                w, 1, Len(visibleChunks)))

\* ------------------------------------------------------------------------
\* State machine
\* ------------------------------------------------------------------------
PlayerY == 1
PlayerPositions == {<<-1, PlayerY, 0>>, <<4 * ChunkSize, PlayerY, 0>>}

\* values of TerrainGenerator.seed (Math.random() * 1000, truncated)
Seeds == {0, 500}

\* world positions the input handlers edit, and the values they pass
EditPositions == {<<-1, 1, 0>>, <<ChunkSize * 7, 0, 0>>}
EditValues == {Null, StoneBlock}

\* coordinates the direct calls of a client use
ApiKeys == {<<0, 0, 0>>, <<initialRadius + 1, 0, 0>>}

\* objects that are still referenced; the others are garbage
Reachable(w) ==
    {w.chunks[k] : k \in DOMAIN w.chunks} \cup Range(w.activeChunks)
        \cup Range(w.chunkUnloadQueue) \cup {j.chunk : j \in Range(w.microtasks)}
        \cup w.loadResults

\* the World's fields after an operation
Commit(w) ==
    /\ \A id \in DOMAIN w.heap : id[4] < MaxInstances
    /\ heap' = [id \in Reachable(w) |-> w.heap[id]]
    /\ chunks' = w.chunks
    /\ activeChunks' = w.activeChunks
    /\ chunkLoadQueue' = w.chunkLoadQueue
    /\ chunkUnloadQueue' = w.chunkUnloadQueue
    /\ microtasks' = w.microtasks
    /\ loadResults' = w.loadResults
    /\ chunksLoaded' = w.chunksLoaded
    /\ chunksUnloaded' = w.chunksUnloaded

\* ------------------------------------------------------------------------
\* ObjectPool
\* ------------------------------------------------------------------------
\* Objects are numbered in the order the factory made them; created is the
\* number made so far, and createFn() returns a new object at every call,
\* as the factories of initializeObjectPools do. returned is the value of
\* the last get (0 before the first).
ObjectPool(initialSize) ==
    [pool |-> [i \in 1..initialSize |-> i], active |-> {}, created |-> initialSize,
     returned |-> 0]

\* Array.prototype.pop: the last element leaves the array
Pop(arr) == SubSeq(arr, 1, Len(arr) - 1)

get(p) ==
    LET obj == IF Len(p.pool) > 0 THEN p.pool[Len(p.pool)] ELSE p.created + 1
    IN [pool |-> IF Len(p.pool) > 0 THEN Pop(p.pool) ELSE p.pool,
        active |-> p.active \cup {obj},
        created |-> IF Len(p.pool) > 0 THEN p.created ELSE p.created + 1,
        returned |-> obj]

\* C36 mutant: release without the membership test
releaseUnchecked(p, obj) ==
    [p EXCEPT !.active = @ \ {obj}, !.pool = Append(@, obj)]

\* C37 mutant: release leaves the object in the active set
releaseKeepsActive(p, obj) ==
    IF obj \in p.active THEN [p EXCEPT !.pool = Append(@, obj)] ELSE p

release(p, obj) ==
    IF obj \in p.active
    THEN [p EXCEPT !.active = @ \ {obj}, !.pool = Append(@, obj)]
    ELSE p

clear(p) == [p EXCEPT !.pool = <<>>, !.active = {}]

getStats(p) ==
    [pooled |-> Len(p.pool), active |-> Cardinality(p.active),
     total |-> Len(p.pool) + Cardinality(p.active)]

\* ------------------------------------------------------------------------
\* VoxelGame: configuration and automatic quality
\* ------------------------------------------------------------------------
\* the fields of CONFIG and PERFORMANCE that adjustQuality reads or writes,
\* as the constructor leaves them (isMobile: the mobile overrides)
VoxelGame(isMobile) ==
    [config |-> [TARGET_FPS |-> IF isMobile THEN 30 ELSE 60,
                 RENDER_DISTANCE |-> IF isMobile THEN 4 ELSE 8,
                 AUTO_QUALITY |-> TRUE],
     performance |-> [fps |-> 0, lowFpsCount |-> 0, qualityLevel |-> "high"]]

levels == <<"low", "medium", "high", "ultra">>

\* levels.indexOf(level), from 0
indexOf(level) == CHOOSE i \in 0..(Len(levels) - 1) : levels[i + 1] = level

\* RENDER_DISTANCE of the settings table of applyQualitySettings
settings(level) ==
    CASE level = "low"    -> [RENDER_DISTANCE |-> 3]
      [] level = "medium" -> [RENDER_DISTANCE |-> 5]
      [] level = "high"   -> [RENDER_DISTANCE |-> 8]
      [] level = "ultra"  -> [RENDER_DISTANCE |-> 12]

\* World.updateConfig: config.RENDER_DISTANCE || this.renderDistance
updateConfig(rd, config) ==
    IF config.RENDER_DISTANCE # 0 THEN config.RENDER_DISTANCE ELSE rd

\* a state of the game and of World.renderDistance
GameWorld(g, rd) == [game |-> g, renderDistance |-> rd]

\* Object.assign(this.config, settings[level]), then world.updateConfig
applyQualitySettings(gw) ==
    Let([gw.game EXCEPT
           !.config.RENDER_DISTANCE = settings(gw.game.performance.qualityLevel).RENDER_DISTANCE],
        LAMBDA g : GameWorld(g, updateConfig(gw.renderDistance, g.config)))

decreaseQuality(gw) ==
    IF indexOf(gw.game.performance.qualityLevel) > 0
    THEN applyQualitySettings(
             [gw EXCEPT !.game.performance.qualityLevel =
                           levels[indexOf(gw.game.performance.qualityLevel) - 1 + 1]])
    ELSE gw

increaseQuality(gw) ==
    IF indexOf(gw.game.performance.qualityLevel) < Len(levels) - 1
    THEN applyQualitySettings(
             [gw EXCEPT !.game.performance.qualityLevel =
                           levels[indexOf(gw.game.performance.qualityLevel) + 1 + 1]])
    ELSE gw

\* fps < targetFps * 0.5 and fps > targetFps * 0.9, in tenths
VeryLowFps(g) == g.performance.fps * 10 < g.config.TARGET_FPS * 5
GoodFps(g) == g.performance.fps * 10 > g.config.TARGET_FPS * 9

\* C38 mutant: the quality is lowered when the count reaches 3
adjustQualityAtThree(gw) ==
    IF ~gw.game.config.AUTO_QUALITY THEN gw
    ELSE IF VeryLowFps(gw.game)
    THEN IF gw.game.performance.lowFpsCount + 1 >= 3
         THEN [decreaseQuality(gw) EXCEPT !.game.performance.lowFpsCount = 0]
         ELSE [gw EXCEPT !.game.performance.lowFpsCount = @ + 1]
    ELSE IF GoodFps(gw.game)
    THEN IF gw.game.performance.qualityLevel # "ultra"
         THEN increaseQuality([gw EXCEPT !.game.performance.lowFpsCount = 0])
         ELSE [gw EXCEPT !.game.performance.lowFpsCount = 0]
    ELSE gw

adjustQuality(gw) ==
    IF ~gw.game.config.AUTO_QUALITY THEN gw
    ELSE IF VeryLowFps(gw.game)
    THEN IF gw.game.performance.lowFpsCount + 1 > 3
         THEN [decreaseQuality(gw) EXCEPT !.game.performance.lowFpsCount = 0]
         ELSE [gw EXCEPT !.game.performance.lowFpsCount = @ + 1]
    ELSE IF GoodFps(gw.game)
    THEN IF gw.game.performance.qualityLevel # "ultra"
         THEN increaseQuality([gw EXCEPT !.game.performance.lowFpsCount = 0])
         ELSE [gw EXCEPT !.game.performance.lowFpsCount = 0]
    ELSE gw

worldVars == <<heap, chunks, activeChunks, chunkLoadQueue, chunkUnloadQueue,
               microtasks, loadResults, chunksLoaded, chunksUnloaded>>

Init ==
    /\ heap = <<>>
    /\ seed = 0
    /\ chunks = <<>>
    /\ activeChunks = <<>>
    /\ chunkLoadQueue = <<>>
    /\ chunkUnloadQueue = <<>>
    /\ renderDistance = RenderDistance
    /\ elapsed = 0
    /\ chunksLoaded = 0
    /\ chunksUnloaded = 0
    /\ microtasks = <<>>
    /\ loadResults = {}
    /\ playerPosition = <<0, 20, 0>>
    /\ moves = 0
    /\ pc = "new"
    /\ calls = 0
    /\ stats = NoStats
    /\ glBuffers = {}
    /\ faulty = {}
    /\ engine = ReadyEngine
    /\ game = VoxelGame(FALSE)
    /\ objectPool = ObjectPool(PoolInitialSize)

\* World.init: new TerrainGenerator (seed = Math.random() * 1000), generateInitialChunks
WorldInitTo(next) ==
    /\ pc = "new"
    /\ \E s \in Seeds :
          /\ seed' = s
          /\ \E w \in {generateInitialChunks(World, s)} : Commit(w)
    /\ pc' = next
    /\ UNCHANGED <<renderDistance, elapsed, playerPosition, moves, calls, stats, glBuffers, faulty, engine, game, objectPool>>

\* VoxelGame.init: await world.init(), then the frame loop starts
WorldInit == WorldInitTo("idle")

\* C25 mutant: World.update without the throttle test
WorldUpdateUnthrottled(position) ==
    /\ elapsed' = 0
    /\ \E w \in {update(World, seed, renderDistance, position)} : Commit(w)

\* World.update(position)
WorldUpdate(position) ==
    IF elapsed < chunkUpdateInterval
    THEN UNCHANGED <<worldVars, elapsed>>
    ELSE /\ elapsed' = 0
         /\ \E w \in {update(World, seed, renderDistance, position)} : Commit(w)

\* VoxelGame.gameLoop up to render: Player.update moves the player, World.update
GameLoopUpdate ==
    /\ pc = "idle"
    /\ microtasks = <<>>
    /\ \E p \in PlayerPositions \cup {playerPosition} :
          /\ p # playerPosition => moves < MaxMoves
          /\ moves' = IF p # playerPosition THEN moves + 1 ELSE moves
          /\ playerPosition' = p
          /\ WorldUpdate(p)
    /\ pc' = "render"
    /\ UNCHANGED <<seed, renderDistance, calls, stats, glBuffers, faulty, engine, game, objectPool>>

\* VoxelGame.render: Engine.clear, Engine.renderWorld
GameLoopRender ==
    /\ pc = "render"
    /\ IF renderWorldThrows(engine)
       THEN stats' = NoStats /\ UNCHANGED engine
       ELSE /\ stats' = renderWorld(NoStats, World, CameraPosition10(playerPosition),
                                    renderDistance)
            /\ engine' = renderWorldBind(engine)
    /\ pc' = "idle"
    /\ UNCHANGED <<worldVars, seed, renderDistance, elapsed, playerPosition,
                   moves, calls, glBuffers, faulty, game, objectPool>>

\* the rest of loadChunk after its await throws: the awaited promise was
\* rejected, or buildMesh throws; loadChunk's own promise is then rejected
\* before chunks.set is reached
Rejects(id) == Throws(KeyOf(id), "generate") \/ Throws(KeyOf(id), "mesh")

\* what a promise job does: the rest of loadChunk after its await (which
\* settles the promise loadChunk returned), the .then callback ("then"), or
\* the reaction of .then to a rejection ("rejected": the callback is not
\* called, no rejection handler was given)
RunJob(w, job) ==
    CASE job.kind = "loadChunk" /\ Rejects(job.chunk) /\ job.then ->
           [w EXCEPT !.microtasks = Append(w.microtasks, Job("rejected", job.chunk, FALSE))]
      [] job.kind = "loadChunk" /\ Rejects(job.chunk) /\ ~job.then -> w
      [] job.kind = "loadChunk" /\ ~Rejects(job.chunk) /\ job.then ->
           [loadChunkStore(w, job.chunk) EXCEPT
              !.microtasks = Append(w.microtasks, Job("then", job.chunk, FALSE))]
      [] job.kind = "loadChunk" /\ ~Rejects(job.chunk) /\ ~job.then ->
           loadChunkStore(w, job.chunk)
      [] job.kind = "then" -> [w EXCEPT !.activeChunks = SetAdd(w.activeChunks, job.chunk)]
      [] job.kind = "rejected" -> w

\* the job queue runs its oldest job
RunMicrotask ==
    /\ pc \in {"idle", "api"}
    /\ microtasks # <<>>
    /\ \E w \in {RunJob([World EXCEPT !.microtasks = Tail(microtasks)], Head(microtasks))} :
          Commit(w)
    /\ UNCHANGED <<seed, renderDistance, elapsed, playerPosition, moves,
                   pc, calls, stats, glBuffers, faulty, engine, game, objectPool>>

\* performance.now() advances
Advance ==
    /\ pc \in {"idle", "render", "api"}
    /\ elapsed < chunkUpdateInterval
    /\ elapsed' = IF elapsed + TimeStep > chunkUpdateInterval
                  THEN chunkUpdateInterval ELSE elapsed + TimeStep
    /\ UNCHANGED <<worldVars, seed, renderDistance, playerPosition, moves,
                   pc, calls, stats, glBuffers, faulty, engine, game, objectPool>>

\* Player.breakBlock / Player.placeBlock from an input event
PlayerSetBlock ==
    /\ pc = "idle"
    /\ microtasks = <<>>
    /\ \E pos \in EditPositions, v \in EditValues :
          \E w \in {WorldSetBlock(World, pos[1], pos[2], pos[3], v)} : Commit(w)
    /\ UNCHANGED <<seed, renderDistance, elapsed, playerPosition, moves, pc, calls, stats, glBuffers, faulty, engine, game, objectPool>>

Next ==
    \/ WorldInit
    \/ GameLoopUpdate
    \/ GameLoopRender
    \/ RunMicrotask
    \/ Advance
    \/ PlayerSetBlock

Spec == Init /\ [][Next]_vars

\* ------------------------------------------------------------------------
\* A client that calls the World's methods directly and does not wait for
\* the loads it started: calls and pending promise jobs interleave freely
\* ------------------------------------------------------------------------
ApiInit == WorldInitTo("api")

ApiUpdate ==
    /\ pc = "api"
    /\ calls < MaxApiCalls
    /\ \E p \in PlayerPositions :
          /\ playerPosition' = p
          /\ WorldUpdate(p)
    /\ calls' = calls + 1
    /\ UNCHANGED <<seed, renderDistance, moves, pc, stats, glBuffers, faulty, engine, game, objectPool>>

ApiLoadChunk ==
    /\ pc = "api"
    /\ calls < MaxApiCalls
    /\ \E key \in ApiKeys : \E w \in {loadChunk(World, seed, key, FALSE)} : Commit(w)
    /\ calls' = calls + 1
    /\ UNCHANGED <<seed, renderDistance, elapsed, playerPosition, moves, pc, stats, glBuffers, faulty, engine, game, objectPool>>

ApiUnloadChunkOf(key) ==
    /\ pc = "api"
    /\ calls < MaxApiCalls
    /\ \E w \in {unloadChunk(World, key)} : Commit(w)
    /\ calls' = calls + 1
    /\ UNCHANGED <<seed, renderDistance, elapsed, playerPosition, moves, pc, stats, glBuffers, faulty, engine, game, objectPool>>

ApiUnloadChunk == \E key \in ApiKeys : ApiUnloadChunkOf(key)

ApiDestroy ==
    /\ pc = "api"
    /\ calls < MaxApiCalls
    /\ \E w \in {WorldDestroy(World)} : Commit(w)
    /\ calls' = calls + 1
    /\ UNCHANGED <<seed, renderDistance, elapsed, playerPosition, moves, pc, stats, glBuffers, faulty, engine, game, objectPool>>

AsyncNext ==
    \/ ApiInit
    \/ ApiUpdate
    \/ ApiLoadChunk
    \/ ApiUnloadChunk
    \/ ApiDestroy
    \/ RunMicrotask
    \/ Advance

AsyncSpec == Init /\ [][AsyncNext]_vars

\* ------------------------------------------------------------------------
\* One Chunk on its own: setBlock and buildMesh called in any order
\* ------------------------------------------------------------------------
ChunkId == <<0, 0, 0, 0>>

\* local coordinates passed to setBlock: a corner cell, its three neighbours,
\* the opposite cell, and one cell beyond each face
ChunkCells ==
    {<<0, 0, 0>>, <<1, 0, 0>>, <<0, 1, 0>>, <<0, 0, 1>>, <<1, 1, 1>>}
        \cup {<<-1, 0, 0>>, <<ChunkSize, 0, 0>>, <<0, -1, 0>>, <<0, ChunkSize, 0>>,
               <<0, 0, -1>>, <<0, 0, ChunkSize>>}

\* values passed as blockType
ChunkValues == {Null, Block(0), Block(1), Block(ByteRange - 1), Block(ByteRange), StoneBlock}

ChunkInit ==
    /\ heap = (ChunkId :> Chunk(0, 0, 0, ChunkSize))
    /\ seed = 0
    /\ chunks = <<>>
    /\ activeChunks = <<>>
    /\ chunkLoadQueue = <<>>
    /\ chunkUnloadQueue = <<>>
    /\ renderDistance = RenderDistance
    /\ elapsed = 0
    /\ chunksLoaded = 0
    /\ chunksUnloaded = 0
    /\ microtasks = <<>>
    /\ loadResults = {}
    /\ playerPosition = <<0, 20, 0>>
    /\ moves = 0
    /\ pc = "unit"
    /\ calls = 0
    /\ stats = NoStats
    /\ glBuffers = {}
    /\ faulty = {}
    /\ engine = ReadyEngine
    /\ game = VoxelGame(FALSE)
    /\ objectPool = ObjectPool(PoolInitialSize)

ChunkSetBlockOf(cell, v) ==
    /\ pc = "unit"
    /\ calls < MaxChunkCalls
    /\ heap' = [heap EXCEPT ![ChunkId] = setBlock(heap[ChunkId], cell[1], cell[2], cell[3], v)]
    /\ calls' = calls + 1
    /\ UNCHANGED <<seed, chunks, activeChunks, chunkLoadQueue, chunkUnloadQueue,
                   renderDistance, elapsed, chunksLoaded, chunksUnloaded, microtasks,
                   loadResults, playerPosition, moves, pc, stats, glBuffers, faulty, engine, game, objectPool>>

ChunkSetBlock == \E cell \in ChunkCells, v \in ChunkValues : ChunkSetBlockOf(cell, v)

ChunkBuildMesh ==
    /\ pc = "unit"
    /\ calls < MaxChunkCalls
    /\ heap' = [heap EXCEPT ![ChunkId] = buildMesh(heap[ChunkId])]
    /\ calls' = calls + 1
    /\ UNCHANGED <<seed, chunks, activeChunks, chunkLoadQueue, chunkUnloadQueue,
                   renderDistance, elapsed, chunksLoaded, chunksUnloaded, microtasks,
                   loadResults, playerPosition, moves, pc, stats, glBuffers, faulty, engine, game, objectPool>>

ChunkNext == ChunkSetBlock \/ ChunkBuildMesh

ChunkSpec == ChunkInit /\ [][ChunkNext]_vars

\* ------------------------------------------------------------------------
\* One World after init: getBlock / setBlock called at positions in and
\* around the initial square, and one coordinate unloaded
\* ------------------------------------------------------------------------
\* world positions passed to World.getBlock / World.setBlock: along x the
\* chunks -1, 0, 1 and the unloaded chunk -initialRadius - 1; along y the
\* layers -1, 0 and (for y = ChunkSize) 1; along z the chunks -1 and 0; and
\* four positions off the axes
WorldPositions ==
    {<<x, 0, 0>> : x \in {-initialRadius * ChunkSize - 1} \cup ((-ChunkSize)..ChunkSize)}
        \cup {<<0, y, 0>> : y \in {-1, 0, 1, ChunkSize - 1, ChunkSize}}
        \cup {<<0, 0, z>> : z \in {-1, 0, 1}}
        \cup {<<-1, 0, -1>>, <<-ChunkSize, 1, 0>>, <<1, 1, 1>>, <<-1, -1, -1>>}

\* values passed as blockType; the terrain of the initial square is type 3
WorldValues == {Null, Block(2)}

EditInit == WorldInitTo("edit")

EditSetBlockOf(pos, v) ==
    /\ pc = "edit"
    /\ calls < MaxEdits
    /\ \E w \in {WorldSetBlock(World, pos[1], pos[2], pos[3], v)} : Commit(w)
    /\ calls' = calls + 1
    /\ UNCHANGED <<seed, renderDistance, elapsed, playerPosition, moves, pc, stats, glBuffers, faulty, engine, game, objectPool>>

EditSetBlock == \E pos \in WorldPositions, v \in WorldValues : EditSetBlockOf(pos, v)

EditUnloadChunk ==
    /\ pc = "edit"
    /\ calls < MaxEdits
    /\ \E w \in {unloadChunk(World, <<0, 0, -1>>)} : Commit(w)
    /\ calls' = calls + 1
    /\ UNCHANGED <<seed, renderDistance, elapsed, playerPosition, moves, pc, stats, glBuffers, faulty, engine, game, objectPool>>

EditNext == EditInit \/ EditSetBlock \/ EditUnloadChunk

EditSpec == Init /\ [][EditNext]_vars

\* ------------------------------------------------------------------------
\* One TerrainGenerator: generateChunk called for new Chunk objects, with
\* edits of other chunks in between
\* ------------------------------------------------------------------------
\* coordinates generated more than once: layers that the terrain surface crosses
CompareKeys == {<<0, 3, 0>>, <<-1, 5, 1>>}
\* a coordinate whose chunk is edited between the runs
OtherKeys == {<<1, 3, 0>>}

\* new TerrainGenerator(chunkSize, worldHeight): seed = Math.random() * 1000
TerrainInit ==
    /\ heap = <<>>
    /\ seed \in Seeds
    /\ chunks = <<>>
    /\ activeChunks = <<>>
    /\ chunkLoadQueue = <<>>
    /\ chunkUnloadQueue = <<>>
    /\ renderDistance = RenderDistance
    /\ elapsed = 0
    /\ chunksLoaded = 0
    /\ chunksUnloaded = 0
    /\ microtasks = <<>>
    /\ loadResults = {}
    /\ playerPosition = <<0, 20, 0>>
    /\ moves = 0
    /\ pc = "terrain"
    /\ calls = 0
    /\ stats = NoStats
    /\ glBuffers = {}
    /\ faulty = {}
    /\ engine = ReadyEngine
    /\ game = VoxelGame(FALSE)
    /\ objectPool = ObjectPool(PoolInitialSize)

\* generateChunk(new Chunk(x, y, z, chunkSize))
TerrainGenerate ==
    /\ pc = "terrain"
    /\ calls < MaxChunkCalls
    /\ \E key \in CompareKeys \cup OtherKeys :
          \E id \in {NewId(heap, key)} :
             /\ id[4] < MaxInstances
             /\ heap' = MapSet(heap, id, generateChunk(seed, Chunk(key[1], key[2], key[3], ChunkSize)))
    /\ calls' = calls + 1
    /\ UNCHANGED <<seed, chunks, activeChunks, chunkLoadQueue, chunkUnloadQueue,
                   renderDistance, elapsed, chunksLoaded, chunksUnloaded, microtasks,
                   loadResults, playerPosition, moves, pc, stats, glBuffers, faulty, engine, game, objectPool>>

\* chunk.setBlock on a generated chunk of another coordinate
TerrainEdit ==
    /\ pc = "terrain"
    /\ calls < MaxChunkCalls
    /\ \E id \in DOMAIN heap, cell \in ChunkCells, v \in {Null, Block(1)} :
          /\ KeyOf(id) \in OtherKeys
          /\ heap' = [heap EXCEPT ![id] = setBlock(heap[id], cell[1], cell[2], cell[3], v)]
    /\ calls' = calls + 1
    /\ UNCHANGED <<seed, chunks, activeChunks, chunkLoadQueue, chunkUnloadQueue,
                   renderDistance, elapsed, chunksLoaded, chunksUnloaded, microtasks,
                   loadResults, playerPosition, moves, pc, stats, glBuffers, faulty, engine, game, objectPool>>

TerrainNext == TerrainGenerate \/ TerrainEdit

TerrainSpec == TerrainInit /\ [][TerrainNext]_vars

\* ------------------------------------------------------------------------
\* A client of the Engine and the World after init: clear, renderWorld,
\* Chunk.createBuffers, World.unloadChunk and World.destroy in any order
\* ------------------------------------------------------------------------
\* coordinates of the chunks the client calls createBuffers on / unloads
RenderKeys == {<<0, 0, 0>>, <<-1, 0, 0>>}

RenderInit == WorldInitTo("engine")

\* Engine.clear
EngineClear ==
    /\ pc = "engine"
    /\ calls < MaxRenderCalls
    /\ stats' = NoStats
    /\ calls' = calls + 1
    /\ UNCHANGED <<worldVars, seed, renderDistance, elapsed, playerPosition, moves, pc,
                   glBuffers, faulty, engine, game, objectPool>>

\* Engine.renderWorld(world, camera) with the camera at the eye of a player at p
EngineRenderWorldAt(p) ==
    /\ pc = "engine"
    /\ calls < MaxRenderCalls
    /\ ~renderWorldThrows(engine)
    /\ stats' = renderWorld(stats, World, CameraPosition10(p), renderDistance)
    /\ engine' = renderWorldBind(engine)
    /\ \E w \in {renderWorldEffect(World, CameraPosition10(p), renderDistance)} : Commit(w)
    /\ calls' = calls + 1
    /\ UNCHANGED <<seed, renderDistance, elapsed, playerPosition, moves, pc,
                   glBuffers, faulty, game, objectPool>>

EngineRenderWorld == \E p \in PlayerPositions : EngineRenderWorldAt(p)

\* chunk.createBuffers(gl) on a loaded chunk
ChunkCreateBuffers ==
    /\ pc = "engine"
    /\ calls < MaxRenderCalls
    /\ \E key \in RenderKeys \cap DOMAIN chunks :
          \E r \in {createBuffers(heap[chunks[key]], glBuffers)} :
             /\ heap' = [heap EXCEPT ![chunks[key]] = r[1]]
             /\ glBuffers' = r[2]
    /\ calls' = calls + 1
    /\ UNCHANGED <<seed, chunks, activeChunks, chunkLoadQueue, chunkUnloadQueue,
                   renderDistance, elapsed, chunksLoaded, chunksUnloaded, microtasks,
                   loadResults, playerPosition, moves, pc, stats, faulty, engine, game, objectPool>>

RenderUnloadChunk ==
    /\ pc = "engine"
    /\ calls < MaxRenderCalls
    /\ \E key \in RenderKeys : \E w \in {unloadChunk(World, key)} : Commit(w)
    /\ calls' = calls + 1
    /\ UNCHANGED <<seed, renderDistance, elapsed, playerPosition, moves, pc, stats,
                   glBuffers, faulty, engine, game, objectPool>>

RenderDestroy ==
    /\ pc = "engine"
    /\ calls < MaxRenderCalls
    /\ \E w \in {WorldDestroy(World)} : Commit(w)
    /\ calls' = calls + 1
    /\ UNCHANGED <<seed, renderDistance, elapsed, playerPosition, moves, pc, stats,
                   glBuffers, faulty, engine, game, objectPool>>

RenderNext ==
    \/ RenderInit
    \/ EngineClear
    \/ EngineRenderWorld
    \/ ChunkCreateBuffers
    \/ RenderUnloadChunk
    \/ RenderDestroy

RenderSpec == Init /\ [][RenderNext]_vars

\* ------------------------------------------------------------------------
\* The frame loop when generating or meshing one coordinate throws.  The
\* coordinates lie outside the square World.init loads, in reach of the
\* player's second position.
\* ------------------------------------------------------------------------
FaultChoices ==
    {{<<(<<initialRadius + 1, 0, 0>>), "generate">>},
     {<<(<<initialRadius + 2, 0, 0>>), "mesh">>}}

FaultInit ==
    /\ heap = <<>>
    /\ seed = 0
    /\ chunks = <<>>
    /\ activeChunks = <<>>
    /\ chunkLoadQueue = <<>>
    /\ chunkUnloadQueue = <<>>
    /\ renderDistance = RenderDistance
    /\ elapsed = 0
    /\ chunksLoaded = 0
    /\ chunksUnloaded = 0
    /\ microtasks = <<>>
    /\ loadResults = {}
    /\ playerPosition = <<0, 20, 0>>
    /\ moves = 0
    /\ pc = "new"
    /\ calls = 0
    /\ stats = NoStats
    /\ glBuffers = {}
    /\ faulty \in FaultChoices
    /\ engine = ReadyEngine
    /\ game = VoxelGame(FALSE)
    /\ objectPool = ObjectPool(PoolInitialSize)

FaultSpec == FaultInit /\ [][Next]_vars

\* ------------------------------------------------------------------------
\* VoxelGame.init from the start: Engine.init with shaders that compile and
\* link or not and an atlas image that loads or not, then World.init and
\* the frame loop.  A rejected Engine.init is caught by VoxelGame.init, which
\* shows the error and does not call start().
\* ------------------------------------------------------------------------
BootInit ==
    /\ heap = <<>>
    /\ seed = 0
    /\ chunks = <<>>
    /\ activeChunks = <<>>
    /\ chunkLoadQueue = <<>>
    /\ chunkUnloadQueue = <<>>
    /\ renderDistance = RenderDistance
    /\ elapsed = 0
    /\ chunksLoaded = 0
    /\ chunksUnloaded = 0
    /\ microtasks = <<>>
    /\ loadResults = {}
    /\ playerPosition = <<0, 20, 0>>
    /\ moves = 0
    /\ pc = "boot"
    /\ calls = 0
    /\ stats = NoStats
    /\ glBuffers = {}
    /\ faulty = {}
    /\ engine = NewEngine
    /\ game = VoxelGame(FALSE)
    /\ objectPool = ObjectPool(PoolInitialSize)

BootEngineInit ==
    /\ pc = "boot"
    /\ \E vertexOk \in BOOLEAN, fragmentOk \in BOOLEAN, linkOk \in BOOLEAN, loads \in BOOLEAN :
          \E r \in {EngineInitOf(engine, vertexOk, fragmentOk, linkOk, loads)} :
             /\ engine' = r[1]
             /\ pc' = IF r[2] THEN "new" ELSE "error"
    /\ UNCHANGED <<worldVars, seed, renderDistance, elapsed, playerPosition,
                   moves, calls, stats, glBuffers, faulty, game, objectPool>>

BootNext ==
    \/ BootEngineInit
    \/ Next

BootSpec == BootInit /\ [][BootNext]_vars

\* ------------------------------------------------------------------------
\* buildMesh on a chunk with any grid: the solid cells are any subset of
\* the first MaxGridCells cells
\* ------------------------------------------------------------------------
GridCells ==
    1..(IF MaxGridCells < ChunkSize * ChunkSize * ChunkSize
        THEN MaxGridCells ELSE ChunkSize * ChunkSize * ChunkSize)

GridChunk(solid) ==
    [Chunk(0, 0, 0, ChunkSize) EXCEPT
       !.blocks = [i \in 1..(ChunkSize * ChunkSize * ChunkSize) |->
                      IF i \in solid THEN 1 ELSE 0],
       !.isEmpty = (solid = {}),
       !.isDirty = (solid # {})]

GridInit ==
    /\ \E solid \in SUBSET GridCells : heap = (ChunkId :> GridChunk(solid))
    /\ seed = 0
    /\ chunks = <<>>
    /\ activeChunks = <<>>
    /\ chunkLoadQueue = <<>>
    /\ chunkUnloadQueue = <<>>
    /\ renderDistance = RenderDistance
    /\ elapsed = 0
    /\ chunksLoaded = 0
    /\ chunksUnloaded = 0
    /\ microtasks = <<>>
    /\ loadResults = {}
    /\ playerPosition = <<0, 20, 0>>
    /\ moves = 0
    /\ pc = "grid"
    /\ calls = 0
    /\ stats = NoStats
    /\ glBuffers = {}
    /\ faulty = {}
    /\ engine = NewEngine
    /\ game = VoxelGame(FALSE)
    /\ objectPool = ObjectPool(PoolInitialSize)

GridBuildMesh ==
    /\ pc = "grid"
    /\ heap' = [heap EXCEPT ![ChunkId] = buildMesh(heap[ChunkId])]
    /\ pc' = "built"
    /\ UNCHANGED <<seed, chunks, activeChunks, chunkLoadQueue, chunkUnloadQueue,
                   renderDistance, elapsed, chunksLoaded, chunksUnloaded, microtasks,
                   loadResults, playerPosition, moves, calls, stats, glBuffers, faulty,
                   engine, game, objectPool>>

GridNext == GridBuildMesh

GridSpec == GridInit /\ [][GridNext]_vars

\* ------------------------------------------------------------------------
\* One ObjectPool and a client that calls get, release and clear; the client
\* may release any object the factory ever made, and object 0, which this
\* pool's factory did not make
\* ------------------------------------------------------------------------
PoolInit ==
    /\ heap = <<>>
    /\ seed = 0
    /\ chunks = <<>>
    /\ activeChunks = <<>>
    /\ chunkLoadQueue = <<>>
    /\ chunkUnloadQueue = <<>>
    /\ elapsed = 0
    /\ chunksLoaded = 0
    /\ chunksUnloaded = 0
    /\ microtasks = <<>>
    /\ loadResults = {}
    /\ playerPosition = <<0, 20, 0>>
    /\ moves = 0
    /\ calls = 0
    /\ stats = NoStats
    /\ glBuffers = {}
    /\ faulty = {}
    /\ engine = NewEngine
    /\ renderDistance = RenderDistance
    /\ pc = "pool"
    /\ game = VoxelGame(FALSE)
    /\ objectPool = ObjectPool(PoolInitialSize)

PoolGetCall ==
    /\ pc = "pool"
    /\ calls < MaxPoolCalls
    /\ objectPool' = get(objectPool)
    /\ calls' = calls + 1
    /\ UNCHANGED <<heap, seed, chunks, activeChunks, chunkLoadQueue, chunkUnloadQueue,
                   renderDistance, elapsed, chunksLoaded, chunksUnloaded, microtasks,
                   loadResults, playerPosition, moves, pc,  stats, glBuffers, faulty,
                   engine, game>>

PoolReleaseOf(obj) ==
    /\ pc = "pool"
    /\ calls < MaxPoolCalls
    /\ objectPool' = release(objectPool, obj)
    /\ calls' = calls + 1
    /\ UNCHANGED <<heap, seed, chunks, activeChunks, chunkLoadQueue, chunkUnloadQueue,
                   renderDistance, elapsed, chunksLoaded, chunksUnloaded, microtasks,
                   loadResults, playerPosition, moves, pc,  stats, glBuffers, faulty,
                   engine, game>>

PoolReleaseCall == \E obj \in 0..objectPool.created : PoolReleaseOf(obj)

PoolClearCall ==
    /\ pc = "pool"
    /\ calls < MaxPoolCalls
    /\ objectPool' = clear(objectPool)
    /\ calls' = calls + 1
    /\ UNCHANGED <<heap, seed, chunks, activeChunks, chunkLoadQueue, chunkUnloadQueue,
                   renderDistance, elapsed, chunksLoaded, chunksUnloaded, microtasks,
                   loadResults, playerPosition, moves, pc,  stats, glBuffers, faulty,
                   engine, game>>

PoolNext == PoolGetCall \/ PoolReleaseCall \/ PoolClearCall

PoolSpec == PoolInit /\ [][PoolNext]_vars

\* ------------------------------------------------------------------------
\* The quality timer: updatePerformanceStats stores an FPS reading,
\* adjustQuality runs from its interval
\* ------------------------------------------------------------------------
\* FPS readings: below half, between, and above nine tenths of either target
FpsReadings == {10, 20, 29, 30, 54, 55}

QualityInit ==
    /\ heap = <<>>
    /\ seed = 0
    /\ chunks = <<>>
    /\ activeChunks = <<>>
    /\ chunkLoadQueue = <<>>
    /\ chunkUnloadQueue = <<>>
    /\ elapsed = 0
    /\ chunksLoaded = 0
    /\ chunksUnloaded = 0
    /\ microtasks = <<>>
    /\ loadResults = {}
    /\ playerPosition = <<0, 20, 0>>
    /\ moves = 0
    /\ calls = 0
    /\ stats = NoStats
    /\ glBuffers = {}
    /\ faulty = {}
    /\ engine = NewEngine
    /\ pc = "quality"
    /\ \E isMobile \in BOOLEAN :
          /\ game = VoxelGame(isMobile)
          /\ renderDistance = VoxelGame(isMobile).config.RENDER_DISTANCE
    /\ objectPool = ObjectPool(PoolInitialSize)

UpdatePerformanceStats ==
    /\ pc = "quality"
    /\ \E fps \in FpsReadings : game' = [game EXCEPT !.performance.fps = fps]
    /\ UNCHANGED <<heap, seed, chunks, activeChunks, chunkLoadQueue, chunkUnloadQueue,
                   renderDistance, elapsed, chunksLoaded, chunksUnloaded, microtasks,
                   loadResults, playerPosition, moves, pc, calls, stats, glBuffers, faulty,
                   engine, objectPool>>

AdjustQuality ==
    /\ pc = "quality"
    /\ \E gw \in {adjustQuality(GameWorld(game, renderDistance))} :
          /\ game' = gw.game
          /\ renderDistance' = gw.renderDistance
    /\ UNCHANGED <<heap, seed, chunks, activeChunks, chunkLoadQueue, chunkUnloadQueue,
                    elapsed, chunksLoaded, chunksUnloaded, microtasks,
                   loadResults, playerPosition, moves, pc, calls, stats, glBuffers, faulty,
                   engine, objectPool>>

QualityNext == UpdatePerformanceStats \/ AdjustQuality

QualitySpec == QualityInit /\ [][QualityNext]_vars

\* the frame callback, the job queue and the clock keep running
FairSpec ==
    /\ Spec
    /\ WF_vars(WorldInit)
    /\ WF_vars(GameLoopUpdate)
    /\ WF_vars(GameLoopRender)
    /\ WF_vars(RunMicrotask)
    /\ WF_vars(Advance)

\* ------------------------------------------------------------------------
\* Properties
\* ------------------------------------------------------------------------
\* the observer's chunk column
PlayerChunkX == playerPosition[1] \div ChunkSize
PlayerChunkZ == playerPosition[3] \div ChunkSize

\* every coordinate that any operation of the model can touch
AllKeys ==
    {<<x, y, z>> : x \in (-initialRadius - RenderDistance - 2)..(4 + initialRadius + RenderDistance + 2),
                   y \in -1..LayerCount,
                   z \in (-initialRadius - RenderDistance - 2)..(initialRadius + RenderDistance + 2)}

\* the coordinates within render distance of the observer, over all layers
InRangeKeys ==
    {k \in AllKeys :
        /\ (k[1] - PlayerChunkX) * (k[1] - PlayerChunkX)
             + (k[3] - PlayerChunkZ) * (k[3] - PlayerChunkZ) <= renderDistance * renderDistance
        /\ k[2] >= 0
        /\ k[2] * ChunkSize < WorldHeight}

ActiveKeys == {KeyOf(id) : id \in Range(activeChunks)}

\* C1: the loadChunk calls made for one coordinate with no unload in between
\* all resolve to the same chunk instance.
C1_SameInstance ==
    \A a \in loadResults : \A b \in loadResults : KeyOf(a) = KeyOf(b) => a = b

\* C2 (steady state): both queues are drained and the active set holds exactly
\* the coordinates within render distance.
Steady ==
    /\ Len(chunkLoadQueue) = 0
    /\ Len(chunkUnloadQueue) = 0
    /\ ActiveKeys = InRangeKeys

\* C2: once the observer stays where it is, the ticks eventually drain both
\* queues and from then on the active set is exactly the in-range coordinates.
C2_Converges == <>[]Steady

C2_Witness ==
    /\ Steady
    /\ moves = MaxMoves
    /\ playerPosition # <<0, 20, 0>>
    /\ pc = "idle"

\* C3: every chunk of the active set is the chunk the mapping stores under
\* its own coordinate.
C3_ActiveMapped ==
    \A id \in Range(activeChunks) :
        KeyOf(id) \in DOMAIN chunks /\ chunks[KeyOf(id)] = id

\* C4: when renderWorld is about to run, no chunk is both in the active set
\* and in the unload queue.
C4_NoActiveQueued ==
    pc = "render" => Range(activeChunks) \cap Range(chunkUnloadQueue) = {}

\* C5: one update call dispatches at most maxChunksPerFrame loads (each
\* dispatch queues one promise job) and unloads at most maxChunksPerFrame
\* chunks (each unload removes one coordinate from the mapping).
C5_Budget ==
    [][(pc = "idle" /\ pc' = "render") =>
          /\ Len(microtasks') - Len(microtasks) <= maxChunksPerFrame
          /\ Cardinality(DOMAIN chunks \ DOMAIN chunks') <= maxChunksPerFrame
          /\ chunksLoaded' <= maxChunksPerFrame
          /\ chunksUnloaded' <= maxChunksPerFrame]_vars

C5_Witness ==
    /\ pc = "render"
    /\ chunksLoaded = maxChunksPerFrame
    /\ chunksUnloaded = maxChunksPerFrame
    /\ Len(microtasks) = maxChunksPerFrame
    /\ Len(chunkLoadQueue) > 0
    /\ Len(chunkUnloadQueue) > 0

\* the world positions inside chunk coordinate key
PositionsIn(key) ==
    {<<key[1] * ChunkSize + dx, key[2] * ChunkSize + dy, key[3] * ChunkSize + dz>> :
        dx \in 0..(ChunkSize - 1), dy \in 0..(ChunkSize - 1), dz \in 0..(ChunkSize - 1)}

\* C6: after unloadChunk(c) for a loaded coordinate c the mapping has no entry
\* for c, the active set does not hold the unloaded chunk, and World.getBlock
\* returns null for every world position inside c.
C6_UnloadComplete ==
    [][\A key \in ApiKeys :
          (key \in DOMAIN chunks /\ ApiUnloadChunkOf(key)) =>
             /\ key \notin DOMAIN chunks'
             /\ chunks[key] \notin Range(activeChunks')
             /\ \A pos \in PositionsIn(key) :
                   WorldGetBlock(World', pos[1], pos[2], pos[3]) = Null]_vars

C6_Witness ==
    /\ pc = "api"
    /\ calls = 1
    /\ playerPosition = <<0, 20, 0>>
    /\ <<0, 0, 0>> \notin DOMAIN chunks
    /\ <<1, 0, 0>> \in DOMAIN chunks
    /\ Len(activeChunks) = ScanCount(initialRadius) - 1

\* block codes of the byte-wide grid, and the value setBlock is given for a
\* code: null for 0 (empty), the descriptor { type: b } otherwise
BlockCodes == {0, 1, ByteRange - 1}
Descriptor(b) == IF b = 0 THEN Null ELSE Block(b)

InRangeCells == {cell \in ChunkCells : \A i \in 1..3 : cell[i] >= 0 /\ cell[i] < ChunkSize}

\* C7: for an in-range cell and a block code b, setBlock followed by getBlock
\* yields b (null when b is 0), and no other cell of the grid changes.
C7_RoundTrip ==
    [][\A cell \in InRangeCells : \A b \in BlockCodes :
          ChunkSetBlockOf(cell, Descriptor(b)) =>
             /\ getBlock(heap'[ChunkId], cell[1], cell[2], cell[3]) = Descriptor(b)
             /\ \A other \in InRangeCells \ {cell} :
                   getBlock(heap'[ChunkId], other[1], other[2], other[3])
                       = getBlock(heap[ChunkId], other[1], other[2], other[3])]_vars

C7_Witness ==
    /\ pc = "unit"
    /\ getBlock(heap[ChunkId], 1, 1, 1) = Block(1)
    /\ getBlock(heap[ChunkId], 0, 1, 0) = Block(ByteRange - 1)

\* C8: for a coordinate with a component < 0 or >= size, getBlock returns
\* null and setBlock leaves the grid, needsRebuild, isDirty and isEmpty as
\* they were.
C8_BoundsSafe ==
    [][\A cell \in ChunkCells \ InRangeCells : \A v \in ChunkValues :
          /\ getBlock(heap[ChunkId], cell[1], cell[2], cell[3]) = Null
          /\ ChunkSetBlockOf(cell, v) =>
                /\ heap'[ChunkId].blocks = heap[ChunkId].blocks
                /\ heap'[ChunkId].needsRebuild = heap[ChunkId].needsRebuild
                /\ heap'[ChunkId].isDirty = heap[ChunkId].isDirty
                /\ heap'[ChunkId].isEmpty = heap[ChunkId].isEmpty]_vars

C8_Witness ==
    /\ pc = "unit"
    /\ calls = 1
    /\ heap[ChunkId].needsRebuild
    /\ ~heap[ChunkId].isDirty
    /\ heap[ChunkId].isEmpty

\* the (voxel, direction) pairs of a grid whose voxel is non-empty and whose
\* neighbour in that direction is empty or outside the grid
Solid(c, x, y, z) ==
    /\ x \in 0..(c.size - 1)
    /\ y \in 0..(c.size - 1)
    /\ z \in 0..(c.size - 1)
    /\ c.blocks[x + y * c.size + z * c.size * c.size + 1] # 0

Direction(f) ==
    CASE f = "top" -> <<0, 1, 0>> [] f = "bottom" -> <<0, -1, 0>>
      [] f = "front" -> <<0, 0, 1>> [] f = "back" -> <<0, 0, -1>>
      [] f = "right" -> <<1, 0, 0>> [] f = "left" -> <<-1, 0, 0>>

ExposedFaces(c) ==
    {p \in (0..(c.size - 1)) \X (0..(c.size - 1)) \X (0..(c.size - 1))
            \X {"top", "bottom", "front", "back", "right", "left"} :
        /\ Solid(c, p[1], p[2], p[3])
        /\ ~Solid(c, p[1] + Direction(p[4])[1], p[2] + Direction(p[4])[2],
                  p[3] + Direction(p[4])[3])}

EmittedFaces(c) == {<<f[1], f[2], f[3], f[4]>> : f \in Range(c.mesh.faces)}

\* C9: the mesh built from a grid holds exactly one face per exposed
\* (voxel, direction) pair, with 4 vertices and 6 indices per face.
C9_FacesExact ==
    \A id \in DOMAIN heap :
        (heap[id].mesh.present /\ ~heap[id].needsRebuild) =>
            /\ EmittedFaces(heap[id]) = ExposedFaces(heap[id])
            /\ Len(heap[id].mesh.faces) = Cardinality(ExposedFaces(heap[id]))
            /\ heap[id].mesh.vertexCount = 4 * Len(heap[id].mesh.faces)
            /\ heap[id].mesh.indexCount = 6 * Len(heap[id].mesh.faces)

C9_Witness ==
    /\ pc = "unit"
    /\ ~heap[ChunkId].needsRebuild
    /\ heap[ChunkId].blocks[1] # 0
    /\ heap[ChunkId].blocks[2] # 0
    /\ heap[ChunkId].mesh.vertexCount = 40
    /\ heap[ChunkId].mesh.indexCount = 60

\* a loaded chunk at key is waiting for a mesh rebuild
NeedsRebuildAt(key) == key \in DOMAIN chunks /\ heap[chunks[key]].needsRebuild

\* C10: a loaded chunk marked for rebuild by World.setBlock is eventually
\* rebuilt (its needsRebuild flag cleared) unless it is unloaded first.
C10_EventuallyRebuilt ==
    \A key \in {<<-1, 0, 0>>, <<0, 0, 0>>} : NeedsRebuildAt(key) ~> ~NeedsRebuildAt(key)

\* the chunk coordinate owning a world coordinate: the k with
\* k * ChunkSize <= a < (k + 1) * ChunkSize
OwnerOf(a) ==
    CHOOSE k \in (-initialRadius - 2)..(initialRadius + 2) :
        k * ChunkSize <= a /\ a < (k + 1) * ChunkSize
OwnerKey(pos) == <<OwnerOf(pos[1]), OwnerOf(pos[2]), OwnerOf(pos[3])>>
LocalOf(pos) == [i \in 1..3 |-> pos[i] - OwnerOf(pos[i]) * ChunkSize]

\* the coordinates of the chunks across the faces the voxel at pos lies on
AcrossFaces(pos) ==
    {[OwnerKey(pos) EXCEPT ![i] = @ - 1] : i \in {j \in 1..3 : LocalOf(pos)[j] = 0}}
        \cup {[OwnerKey(pos) EXCEPT ![i] = @ + 1] :
                 i \in {j \in 1..3 : LocalOf(pos)[j] = ChunkSize - 1}}

C13_UnloadedNoOp ==
    [][\A pos \in WorldPositions : \A v \in WorldValues :
          OwnerKey(pos) \notin DOMAIN chunks =>
             /\ WorldGetBlock(World, pos[1], pos[2], pos[3]) = Null
             /\ EditSetBlockOf(pos, v) => UNCHANGED worldVars]_vars

C13_Witness ==
    /\ pc = "edit"
    /\ calls = MaxEdits
    /\ Cardinality(DOMAIN chunks) = ScanCount(initialRadius)
    /\ chunkLoadQueue = <<>>
    /\ \A key \in DOMAIN chunks :
          /\ ~heap[chunks[key]].needsRebuild
          /\ \A i \in DOMAIN heap[chunks[key]].blocks : heap[chunks[key]].blocks[i] = 3

\* C14: World.setBlock at pos writes the cell LocalOf(pos) of the chunk
\* OwnerKey(pos) and no other cell of any chunk; World.getBlock at pos reads
\* that cell, and the value read at every other position is as before
\* (negative components included).
C14_FloorAddressing ==
    [][\A pos \in WorldPositions : \A v \in WorldValues :
          (OwnerKey(pos) \in DOMAIN chunks /\ EditSetBlockOf(pos, v)) =>
             /\ \A i \in 1..3 : LocalOf(pos)[i] \in 0..(ChunkSize - 1)
             /\ DOMAIN heap' = DOMAIN heap
             /\ \A id \in DOMAIN heap :
                   heap'[id].blocks =
                       IF id = chunks[OwnerKey(pos)]
                       THEN [heap[id].blocks EXCEPT
                               ![LocalOf(pos)[1] + LocalOf(pos)[2] * ChunkSize
                                   + LocalOf(pos)[3] * ChunkSize * ChunkSize + 1] =
                                        IF v = Null THEN 0 ELSE v.type]
                       ELSE heap[id].blocks
             /\ WorldGetBlock(World', pos[1], pos[2], pos[3]) = v
             /\ \A q \in WorldPositions \ {pos} :
                   WorldGetBlock(World', q[1], q[2], q[3])
                       = WorldGetBlock(World, q[1], q[2], q[3])]_vars

C14_Witness ==
    /\ pc = "edit"
    /\ calls = 2
    /\ WorldGetBlock(World, -1, 0, -1) = Block(2)
    /\ WorldGetBlock(World, -ChunkSize, 1, 0) = Null
    /\ WorldGetBlock(World, -ChunkSize + 1, 1, 0) = Block(3)

C15_VisibleSorted ==
    Let(CameraPosition10(playerPosition), LAMBDA cam :
        Let(getVisibleChunks(World, cam, renderDistance), LAMBDA v :
            /\ Range(v) = {id \in Range(activeChunks) :
                              isChunkInFrustum(heap[id], cam, renderDistance)}
            /\ Len(v) = Cardinality(Range(v))
            /\ \A i \in 1..(Len(v) - 1) :
                  ChunkDistanceSq(heap[v[i]], cam) <= ChunkDistanceSq(heap[v[i + 1]], cam)))

C15_Witness ==
    Let(CameraPosition10(playerPosition), LAMBDA cam :
        Let(getVisibleChunks(World, cam, renderDistance), LAMBDA v :
            /\ pc = "render"
            /\ Len(v) >= 2
            /\ Len(v) < Len(activeChunks)
            /\ ChunkDistanceSq(heap[v[1]], cam) < ChunkDistanceSq(heap[v[Len(v)]], cam)))

\* the chunks one renderWorld call draws: the visible ones with a non-empty mesh
Drawn(w, cam10, R) ==
    {id \in Range(getVisibleChunks(w, cam10, R)) :
        w.heap[id].mesh.present /\ w.heap[id].mesh.vertexCount > 0}

RECURSIVE VertexSum(_, _)
VertexSum(ids, h) ==
    IF ids = {} THEN 0
    ELSE LET id == CHOOSE i \in ids : TRUE
         IN h[id].mesh.vertexCount + VertexSum(ids \ {id}, h)

\* C16: the statistics renderWorld returns count the chunks drawn in that call
\* only: drawCalls and chunks are their number and vertices is the sum of their
\* vertex counts, whatever the statistics held before the call.
C16_StatsPerCall ==
    [][\A p \in PlayerPositions :
          EngineRenderWorldAt(p) =>
             Let(Drawn(World, CameraPosition10(p), renderDistance), LAMBDA drawn :
                 /\ stats'.drawCalls = Cardinality(drawn)
                 /\ stats'.chunks = Cardinality(drawn)
                 /\ stats'.vertices = VertexSum(drawn, heap))]_vars

\* C17: after a renderWorld call every chunk it drew has a vertex buffer and
\* an index buffer that the graphics context holds.
C17_BuffersBeforeDraw ==
    [][\A p \in PlayerPositions :
          EngineRenderWorldAt(p) =>
             \A id \in Drawn(World, CameraPosition10(p), renderDistance) :
                /\ heap'[id].mesh.vertexBuffer \in glBuffers'
                /\ heap'[id].mesh.indexBuffer \in glBuffers']_vars

\* C18: every buffer the graphics context holds is one a chunk still has a
\* handle to: no buffer is left in the context once its chunk dropped it.
C18_NoLeakedBuffer ==
    glBuffers \subseteq {heap[id].vertexBuffer : id \in DOMAIN heap}
                           \cup {heap[id].indexBuffer : id \in DOMAIN heap}

FaultyKeys == {f[1] : f \in faulty}

\* a call of World.update that gets past the throttle test
UpdateStep == pc = "idle" /\ pc' = "render" /\ elapsed >= chunkUpdateInterval

\* the World as the selection pass of that call leaves it
Selected ==
    updateChunksAroundPlayer(World, renderDistance,
                             playerPosition'[1] \div ChunkSize,
                             playerPosition'[3] \div ChunkSize)

\* C20: when generating or meshing one coordinate throws, every step leaves
\* that coordinate out of the mapping and out of the active set, and every
\* World.update that processes the queues (1) dispatches as many loads as
\* the cap and the queue allow, each dispatched coordinate having its load
\* in flight afterwards, (2) unloads as many chunks as the cap and the queue
\* allow, each of them gone from the mapping, and (3) has the failing
\* coordinate queued or in flight again whenever it is within the render
\* distance of the player.
C20_FaultIsolated ==
    [][/\ \A k \in FaultyKeys :
             /\ k \notin DOMAIN chunks'
             /\ \A id \in Range(activeChunks') : KeyOf(id) # k
       /\ UpdateStep =>
             Let(Selected, LAMBDA sel :
                 LET loads == sel.chunkLoadQueue
                     unloads == sel.chunkUnloadQueue
                     nl == IF Len(loads) < maxChunksPerFrame
                           THEN Len(loads) ELSE maxChunksPerFrame
                     nu == IF Len(unloads) < maxChunksPerFrame
                           THEN Len(unloads) ELSE maxChunksPerFrame
                 IN /\ chunksLoaded' = nl
                    /\ chunkLoadQueue' = SubSeq(loads, nl + 1, Len(loads))
                    /\ \A i \in 1..nl :
                          \E j \in Range(microtasks') : KeyOf(j.chunk) = loads[i]
                    /\ chunksUnloaded' = nu
                    /\ chunkUnloadQueue' = SubSeq(unloads, nu + 1, Len(unloads))
                    /\ \A i \in 1..nu : KeyOf(unloads[i]) \notin DOMAIN chunks'
                    /\ \A k \in FaultyKeys :
                          WithinRenderDist(k, renderDistance,
                                           playerPosition'[1] \div ChunkSize,
                                           playerPosition'[3] \div ChunkSize)
                          => \/ k \in Range(chunkLoadQueue')
                             \/ \E j \in Range(microtasks') : KeyOf(j.chunk) = k)
      ]_vars

\* the failing coordinate is queued again after a coordinate that was
\* dispatched behind it has been loaded
C20_Witness ==
    \E k \in FaultyKeys :
       /\ k \in Range(chunkLoadQueue)
       /\ \E key \in DOMAIN chunks :
             /\ key[1] > k[1] \/ (key[1] = k[1] /\ key[3] > k[3])
             /\ key[1] > initialRadius
             /\ chunks[key] \in Range(activeChunks)
       /\ chunksUnloaded = maxChunksPerFrame

\* ------------------------------------------------------------------------
\* Engine initialisation
\* ------------------------------------------------------------------------
\* a step in which renderWorld is executed
RenderStep == pc = "render" /\ pc' = "idle"

\* C21: when a shader compile or the link failed (shaders.block is null),
\* VoxelGame.init is in its error state and the frame loop is not running;
\* no step executes renderWorld without a shader program.
C21_ShaderFailureAborts ==
    [][/\ engine'.block = "null" => pc' = "error"
       /\ RenderStep => engine.block = "program" /\ engine'.program = "program"]_vars

C21_Witness == pc = "error" /\ engine.block = "null" /\ engine.glTextures = {}

\* C22: when the atlas image failed to load (textures.atlas is undefined
\* after Engine.init), Engine.init has completed all the same, and every
\* renderWorld leaves the white placeholder, a texture that exists on the
\* graphics context, bound; whatever the atlas did, the texture bound by
\* renderWorld exists.
C22_PlaceholderBound ==
    [][/\ (engine'.block = "program" /\ engine'.atlas = 0)
           => /\ pc' # "error"
              /\ engine'.white \in engine'.glTextures
       /\ RenderStep
           => /\ engine'.bound \in engine'.glTextures
              /\ engine.atlas = 0 => engine'.bound = engine'.white]_vars

C22_Witness ==
    /\ engine.block = "program"
    /\ engine.atlas = 0
    /\ pc = "idle"
    /\ engine.bound = engine.white
    /\ stats.drawCalls > 0

\* ------------------------------------------------------------------------
\* Life cycle of a coordinate in the frame loop
\* ------------------------------------------------------------------------
\* C23: in every step after World.init, (1) no coordinate of the load queue
\* is in the mapping, and a coordinate enters the load queue only when the
\* mapping does not have it; (2) a coordinate enters the mapping only as
\* the completion of a load that was dispatched; (3) a chunk enters the
\* active set only when the mapping holds it; (4) a chunk enters the unload
\* queue only from the active set; (5) a coordinate leaves the mapping only
\* in a World.update whose unload queue held its chunk, and its chunk
\* leaves the active set with it.
C23_Lifecycle ==
    [][pc # "new" =>
         /\ Range(chunkLoadQueue') \cap DOMAIN chunks' = {}
         /\ \A key \in Range(chunkLoadQueue') \ Range(chunkLoadQueue) :
               key \notin DOMAIN chunks
         /\ \A key \in DOMAIN chunks' \ DOMAIN chunks :
               /\ microtasks # <<>>
               /\ Head(microtasks).kind = "loadChunk"
               /\ KeyOf(Head(microtasks).chunk) = key
         /\ \A id \in Range(activeChunks') \ Range(activeChunks) :
               KeyOf(id) \in DOMAIN chunks /\ chunks[KeyOf(id)] = id
         /\ \A id \in Range(chunkUnloadQueue') \ Range(chunkUnloadQueue) :
               id \in Range(activeChunks)
         /\ \A key \in DOMAIN chunks \ DOMAIN chunks' :
               /\ UpdateStep
               /\ chunks[key] \in Range(Selected.chunkUnloadQueue)
               /\ chunks[key] \notin Range(chunkUnloadQueue')
               /\ chunks[key] \notin Range(activeChunks')
      ]_vars

\* a coordinate outside the initial square went through the load queue and
\* is active, chunks have been unloaded and others wait in both queues
C23_Witness ==
    /\ \E key \in DOMAIN chunks :
          key[1] > initialRadius /\ chunks[key] \in Range(activeChunks)
    /\ chunksUnloaded = maxChunksPerFrame
    /\ chunkUnloadQueue # <<>>
    /\ chunkLoadQueue # <<>>

\* ------------------------------------------------------------------------
\* The selection pass
\* ------------------------------------------------------------------------
\* planar distance of a coordinate to the observer chunk is at most R
Planar(key, R, cx, cz) ==
    (key[1] - cx) * (key[1] - cx) + (key[3] - cz) * (key[3] - cz) <= R * R

\* the coordinates around the observer chunk, one ring wider than R
Around(R, cx, cz) ==
    {<<x, y, z>> : x \in (cx - R - 1)..(cx + R + 1), y \in 0..(LayerCount - 1),
                   z \in (cz - R - 1)..(cz + R + 1)}

\* the postcondition of a selection pass from the current World for an
\* observer at position p
SelectionPost(p) ==
    Let(updateChunksAroundPlayer(World, renderDistance,
                                 p[1] \div ChunkSize, p[3] \div ChunkSize),
        LAMBDA sel :
          LET cx == p[1] \div ChunkSize
              cz == p[3] \div ChunkSize
              R == renderDistance
          IN /\ \A key \in Around(R, cx, cz) :
                   (Planar(key, R, cx, cz) /\ key \notin DOMAIN chunks)
                      => key \in Range(sel.chunkLoadQueue)
             /\ \A id \in Range(activeChunks) :
                   ~Planar(KeyOf(id), R, cx, cz) => id \in Range(sel.chunkUnloadQueue)
             /\ \A id \in Range(sel.chunkUnloadQueue) \ Range(chunkUnloadQueue) :
                   ~Planar(KeyOf(id), R, cx, cz)
             /\ \A key \in Range(sel.chunkLoadQueue) \ Range(chunkLoadQueue) :
                   /\ Planar(key, R, cx, cz)
                   /\ key[2] \in 0..(LayerCount - 1)
                   /\ key \notin DOMAIN chunks
             /\ sel.chunks = chunks /\ sel.activeChunks = activeChunks)

\* C24: from every state of the frame loop, a selection pass for any
\* observer position leaves in the load queue every coordinate within R
\* (all layers) that the mapping lacks, leaves in the unload queue every
\* active chunk beyond R, adds to the unload queue no chunk within R and to
\* the load queue no coordinate beyond R.
C24_SelectionPost ==
    pc \in {"idle", "render"} =>
       \A p \in PlayerPositions \cup {playerPosition} : SelectionPost(p)

\* the last World.update ran a selection pass that queued both loads and
\* unloads and left some of each in the queues
C24_Witness ==
    /\ pc = "render"
    /\ elapsed = 0
    /\ chunkLoadQueue # <<>>
    /\ chunkUnloadQueue # <<>>
    /\ \E id \in Range(chunkUnloadQueue) :
          ~Planar(KeyOf(id), renderDistance, playerPosition[1] \div ChunkSize,
                  playerPosition[3] \div ChunkSize)

\* ------------------------------------------------------------------------
\* The throttle of World.update
\* ------------------------------------------------------------------------
\* a step in which VoxelGame.update calls World.update
UpdateCall == pc = "idle" /\ pc' = "render"

\* C25: a World.update called less than chunkUpdateInterval after the last
\* executed pass changes neither the mapping, the active set, the queues,
\* the chunks nor lastChunkUpdate; an update that does run a pass is at
\* least chunkUpdateInterval after the last one and restarts the interval.
C25_Throttle ==
    [][UpdateCall =>
         /\ elapsed < chunkUpdateInterval
               => UNCHANGED <<heap, chunks, activeChunks, chunkLoadQueue,
                              chunkUnloadQueue, microtasks, elapsed>>
         /\ elapsed >= chunkUpdateInterval => elapsed' = 0
         /\ <<chunks, activeChunks, chunkLoadQueue, chunkUnloadQueue>>
               # <<chunks', activeChunks', chunkLoadQueue', chunkUnloadQueue'>>
               => elapsed >= chunkUpdateInterval
      ]_vars

\* the observer moved four chunks away in a World.update that came too
\* soon: nothing around the new position is loaded, queued or in flight
C25_Witness ==
    /\ pc = "render"
    /\ elapsed < chunkUpdateInterval
    /\ playerPosition[1] \div ChunkSize > initialRadius + RenderDistance
    /\ chunks # <<>>
    /\ chunkLoadQueue = <<>>
    /\ microtasks = <<>>
    /\ \A key \in DOMAIN chunks : key[1] <= initialRadius

\* ------------------------------------------------------------------------
\* The queues hold nothing twice
\* ------------------------------------------------------------------------
NoDuplicates(q) == \A i \in 1..Len(q) : \A j \in 1..Len(q) : q[i] = q[j] => i = j

\* a step in which World.update ran its selection pass
PassStep == elapsed >= chunkUpdateInterval /\ elapsed' = 0

\* C26: after every step the load queue holds no coordinate twice and the
\* unload queue no chunk twice; the queues a selection pass leaves hold
\* nothing twice either, and every coordinate the pass added to the load
\* queue was neither in the mapping nor in the load queue before.
C26_QueuesDeduplicated ==
    [][/\ NoDuplicates(chunkLoadQueue')
       /\ NoDuplicates(chunkUnloadQueue')
       /\ PassStep =>
             Let(Selected, LAMBDA sel :
                 /\ NoDuplicates(sel.chunkLoadQueue)
                 /\ NoDuplicates(sel.chunkUnloadQueue)
                 /\ Len(sel.chunkLoadQueue) >= Len(chunkLoadQueue)
                 /\ SubSeq(sel.chunkLoadQueue, 1, Len(chunkLoadQueue)) = chunkLoadQueue
                 /\ \A i \in (Len(chunkLoadQueue) + 1)..Len(sel.chunkLoadQueue) :
                       /\ sel.chunkLoadQueue[i] \notin DOMAIN chunks
                       /\ sel.chunkLoadQueue[i] \notin Range(chunkLoadQueue))
      ]_vars

\* two selection passes ran for the far position, the second over a load
\* queue that still held coordinates of the first
C26_Witness ==
    /\ pc = "api"
    /\ calls >= 2
    /\ chunksLoaded = maxChunksPerFrame
    /\ Len(chunkLoadQueue) = 1
    /\ \A key \in DOMAIN chunks : key[1] <= initialRadius
    /\ Len(chunkUnloadQueue) >= 2

\* ------------------------------------------------------------------------
\* A dispatched load runs to its end
\* ------------------------------------------------------------------------
\* a step in which the job queue runs its oldest job
JobStep ==
    /\ microtasks # <<>>
    /\ calls' = calls
    /\ elapsed' = elapsed
    /\ pc' = pc

\* the coordinate is beyond the render distance of the observer at p
OutOfRangeOf(key, p) ==
    ~Planar(key, renderDistance, p[1] \div ChunkSize, p[3] \div ChunkSize)

\* C27: (1) no step takes a pending load out of the job queue other than by
\* running it; (2) when the continuation of a dispatched load runs, its
\* chunk is stored in the mapping and the callback is queued; when the
\* callback runs, the chunk is added to the active set; both wherever the
\* observer is; (3) every selection pass queues for unload every active
\* chunk that is beyond the render distance.
C27_LoadNotCancelled ==
    [][/\ \/ microtasks = <<>>
          \/ /\ Len(microtasks') >= Len(microtasks)
             /\ SubSeq(microtasks', 1, Len(microtasks)) = microtasks
          \/ /\ JobStep
             /\ Len(microtasks') >= Len(microtasks) - 1
             /\ SubSeq(microtasks', 1, Len(microtasks) - 1) = Tail(microtasks)
       /\ (JobStep /\ Head(microtasks).kind = "loadChunk" /\ Head(microtasks).then)
            => /\ KeyOf(Head(microtasks).chunk) \in DOMAIN chunks'
               /\ chunks'[KeyOf(Head(microtasks).chunk)] = Head(microtasks).chunk
               /\ Job("then", Head(microtasks).chunk, FALSE) \in Range(microtasks')
       /\ (JobStep /\ Head(microtasks).kind = "then")
            => Head(microtasks).chunk \in Range(activeChunks')
       /\ PassStep
            => Let(Selected, LAMBDA sel :
                   \A id \in Range(activeChunks) :
                      OutOfRangeOf(KeyOf(id), playerPosition')
                         => id \in Range(sel.chunkUnloadQueue))
      ]_vars

\* the continuation of a dispatched load has stored its chunk in the
\* mapping while the observer is out of its range, the callback that adds
\* it to the active set is pending, and a selection pass has queued for
\* unload an active chunk that was loaded through the queue
C27_Witness ==
    /\ pc = "api"
    /\ \E j \in Range(microtasks) :
          /\ j.kind = "then"
          /\ KeyOf(j.chunk) \in DOMAIN chunks
          /\ chunks[KeyOf(j.chunk)] = j.chunk
          /\ OutOfRangeOf(KeyOf(j.chunk), playerPosition)
    /\ \E id \in Range(activeChunks) :
          /\ id[1] > initialRadius
          /\ OutOfRangeOf(KeyOf(id), playerPosition)
          /\ id \in Range(chunkUnloadQueue)

RECURSIVE IndexSum(_, _)
IndexSum(ids, h) ==
    IF ids = {} THEN 0
    ELSE LET id == CHOOSE i \in ids : TRUE
         IN h[id].mesh.indexCount + IndexSum(ids \ {id}, h)

\* the chunks the frame's renderWorld draws
DrawnInFrame == Drawn(World, CameraPosition10(playerPosition), renderDistance)

\* C29: after each frame's renderWorld, three times the triangles statistic
\* is the sum of the index counts of the chunks drawn (two triangles, six
\* indices, per face), and each drawn chunk was submitted with drawElements
\* over its indexCount indices.
C29_TrianglesAndIndexedDraw ==
    [][(RenderStep /\ ~renderWorldThrows(engine)) =>
          Let(DrawnInFrame, LAMBDA drawn :
              /\ stats'.triangles3 = IndexSum(drawn, heap)
              /\ \A id \in drawn :
                    drawCall(heap[id]) = <<"drawElements", heap[id].mesh.indexCount>>)
      ]_vars

\* C30: the translation renderChunk applies to a chunk it draws is the
\* chunk's coordinate times the chunk size, the origin World.getBlock and
\* World.getChunkDistance use for it.
C30_TranslationIsOrigin ==
    [][(RenderStep /\ ~renderWorldThrows(engine)) =>
          \A id \in DrawnInFrame :
             modelTranslation(heap[id])
                = <<heap[id].position[1] * ChunkSize, heap[id].position[2] * ChunkSize,
                    heap[id].position[3] * ChunkSize>>
      ]_vars

\* ------------------------------------------------------------------------
\* The index array of a mesh
\* ------------------------------------------------------------------------
\* C31: in the mesh built from any grid, the entries the k-th face (k from
\* 0) has in the 16-bit index array are 4k, 4k+1, 4k+2, 4k, 4k+2, 4k+3, and
\* every one of them is less than vertexCount.
C31_IndexPattern ==
    pc = "built" =>
       LET m == heap[ChunkId].mesh
       IN /\ m.present
          /\ m.vertexCount = 4 * Len(m.faces)
          /\ \A k \in 1..Len(m.faces) :
                /\ storedIndices(m, k)
                     = <<4 * (k - 1), 4 * (k - 1) + 1, 4 * (k - 1) + 2,
                         4 * (k - 1), 4 * (k - 1) + 2, 4 * (k - 1) + 3>>
                /\ \A i \in 1..6 : storedIndices(m, k)[i] < m.vertexCount

\* the mesh of the grid with the most faces: no two solid cells touch
C31_Witness ==
    /\ pc = "built"
    /\ Len(heap[ChunkId].mesh.faces) = 6 * ((ChunkSize * ChunkSize * ChunkSize) \div 2)
    /\ storedIndices(heap[ChunkId].mesh, Len(heap[ChunkId].mesh.faces))[6]
          = heap[ChunkId].mesh.vertexCount - 1

\* ------------------------------------------------------------------------
\* The empty flag of a chunk
\* ------------------------------------------------------------------------
\* C32: after any sequence of setBlock calls, a chunk whose isEmpty flag is
\* true has no non-zero byte in its grid.
C32_EmptyFlagSound ==
    heap[ChunkId].isEmpty => \A i \in DOMAIN heap[ChunkId].blocks : heap[ChunkId].blocks[i] = 0

\* the flag is still true after setBlock calls that stored a byte (null on an
\* in-range cell), and after a call outside the grid
C32_Witness ==
    /\ pc = "unit"
    /\ calls = MaxChunkCalls
    /\ heap[ChunkId].isEmpty
    /\ heap[ChunkId].isDirty
    /\ ~heap[ChunkId].mesh.present

\* ------------------------------------------------------------------------
\* The unload queue and an observer that comes back
\* ------------------------------------------------------------------------
\* C33: a chunk that a World.update takes from the unload queue and destroys
\* is out of render distance of the observer position of that update; a
\* chunk that is within range when it is dequeued stays in the mapping and
\* in the active set.
C33_UnloadOnlyOutOfRange ==
    [][UpdateStep =>
          \A key \in DOMAIN chunks :
             (chunks[key] \in Range(chunkUnloadQueue) /\ ~OutOfRangeOf(key, playerPosition'))
                => /\ key \in DOMAIN chunks'
                   /\ chunks[key] \in Range(activeChunks')
      ]_vars

\* ------------------------------------------------------------------------
\* Instances of one coordinate in the active set
\* ------------------------------------------------------------------------
\* C34: no two distinct chunk instances of the active set have the same
\* coordinate, whatever the order of update calls and load completions.
C34_OneActivePerKey ==
    \A a \in Range(activeChunks) : \A b \in Range(activeChunks) :
        KeyOf(a) = KeyOf(b) => a = b

\* ------------------------------------------------------------------------
\* Storing a block descriptor in the byte grid
\* ------------------------------------------------------------------------
\* C35: setBlock on an in-range cell with any non-null block value leaves
\* the cell non-empty: the getBlock that follows returns a block.
C35_NonNullStoresSolid ==
    [][\A cell \in InRangeCells : \A v \in ChunkValues \ {Null} :
          ChunkSetBlockOf(cell, v) =>
             getBlock(heap'[ChunkId], cell[1], cell[2], cell[3]) # Null]_vars

\* ------------------------------------------------------------------------
\* ObjectPool
\* ------------------------------------------------------------------------
\* C36: after any sequence of get, release and clear, no object is both in
\* the pool list and in the active set, no object is twice in the pool
\* list, and get does not return an object that was active at the call.
C36_PoolDisjoint ==
    /\ [](/\ Range(objectPool.pool) \cap objectPool.active = {}
          /\ \A i \in 1..Len(objectPool.pool) : \A j \in 1..Len(objectPool.pool) :
                objectPool.pool[i] = objectPool.pool[j] => i = j)
    /\ [][PoolGetCall =>
             /\ objectPool'.returned \notin objectPool.active
             /\ objectPool'.returned \in objectPool'.active]_vars

\* the pool ran empty, the factory made a further object, and objects are
\* pooled again after releases
C36_Witness ==
    /\ pc = "pool"
    /\ objectPool.created > PoolInitialSize
    /\ objectPool.returned \in objectPool.active
    /\ Len(objectPool.pool) >= 2

\* C37: release of an object that is not active changes neither the pool
\* list, the active set nor getStats; release of an active object removes
\* exactly it from the active set, appends it to the pool list, and leaves
\* getStats().total as it was.
C37_ReleaseEffect ==
    [][\A obj \in 0..objectPool.created :
          PoolReleaseOf(obj) =>
             IF obj \in objectPool.active
             THEN /\ objectPool'.active = objectPool.active \ {obj}
                  /\ objectPool'.pool = Append(objectPool.pool, obj)
                  /\ getStats(objectPool').total = getStats(objectPool).total
                  /\ getStats(objectPool').pooled = getStats(objectPool).pooled + 1
                  /\ getStats(objectPool').active = getStats(objectPool).active - 1
             ELSE /\ objectPool'.pool = objectPool.pool
                  /\ objectPool'.active = objectPool.active
                  /\ getStats(objectPool') = getStats(objectPool)]_vars

\* an object got from the pool is back in the pool list while another one
\* is active, nothing was cleared, and the client has made a release that
\* had no effect: with gets and effective releases only, the number of
\* calls and the number of active objects are both even or both odd
C37_Witness ==
    /\ pc = "pool"
    /\ objectPool.created = PoolInitialSize
    /\ getStats(objectPool).total = PoolInitialSize
    /\ objectPool.returned \in Range(objectPool.pool)
    /\ objectPool.active # {}
    /\ calls % 2 # getStats(objectPool).active % 2

\* ------------------------------------------------------------------------
\* Automatic quality
\* ------------------------------------------------------------------------
\* C38: a call of adjustQuality moves qualityLevel by at most one step of
\* low < medium < high < ultra; it lowers the level only when the reading
\* is below half the target and three such readings were already counted,
\* the count growing by one on such a reading, staying on a reading between
\* half and nine tenths, and returning to 0 on a reading above nine tenths
\* or on the fourth counted reading; and whenever the level changes,
\* World.renderDistance is the RENDER_DISTANCE of the settings table for
\* the new level.
C38_QualitySteps ==
    [][LET q  == indexOf(game.performance.qualityLevel)
           q1 == indexOf(game'.performance.qualityLevel)
           n  == game.performance.lowFpsCount
           n1 == game'.performance.lowFpsCount
       IN /\ q1 - q \in {-1, 0, 1}
          /\ q1 < q => VeryLowFps(game) /\ n = 3 /\ n1 = 0
          /\ n1 # n =>
                \/ VeryLowFps(game) /\ n < 3 /\ n1 = n + 1
                \/ VeryLowFps(game) /\ n = 3 /\ n1 = 0
                \/ GoodFps(game) /\ n1 = 0
          /\ (game'.performance.fps = game.performance.fps /\ ~VeryLowFps(game)
                /\ ~GoodFps(game)) => n1 = n /\ q1 = q
          /\ q1 # q =>
                /\ renderDistance' = settings(game'.performance.qualityLevel).RENDER_DISTANCE
                /\ game'.config.RENDER_DISTANCE = renderDistance'
      ]_vars

\* the level was lowered twice, to low, and three further low readings are
\* counted
C38_Witness ==
    /\ pc = "quality"
    /\ game.performance.qualityLevel = "low"
    /\ renderDistance = 3
    /\ game.performance.lowFpsCount = 3

====
